---- MODULE Spec2Model ----
(***************************************************************************)
(* The planning subsystem of MetaConscious: the Completion Client's retry  *)
(* loop (LLMClient.complete), the plan schema (validate_plan), the         *)
(* orchestrator (PlanningEngine.generate_daily_plan) with its upsert into  *)
(* daily_plans, the generate-plan route and the nightly planning job; the  *)
(* weekly override quota; the nightly trigger; reschedule_task and the     *)
(* update_task route.                                                      *)
(*                                                                         *)
(* Text is a sequence of one-character strings, so that patterns, lengths  *)
(* and substring tests are computed as the code computes them.  A JSON     *)
(* value is a tagged record: JStr, JInt, JNull, JList, JObj.               *)
(***************************************************************************)
EXTENDS Integers, Sequences, FiniteSets, TLC

(***************************************************************************)
(* Bounds of the model and constants of the program.                       *)
(***************************************************************************)
\* generate_daily_plan invocations started in one behaviour
MaxCalls == 2

\* LLMClient.max_retries
LLMClient_max_retries == 3
\* LLMClient.retry_delay (seconds)
LLMClient_retry_delay == 1
\* PlanningEngine.max_retries
PlanningEngine_max_retries == 3

(***************************************************************************)
(* Text.                                                                   *)
(***************************************************************************)
Digits == {"0", "1", "2", "3", "4", "5", "6", "7", "8", "9"}

HexDigitsAndDash == Digits \cup {"a", "b", "c", "d", "e", "f", "-"}

\* the text made of n copies of the character c
Rep(c, n) == [i \in 1..n |-> c]

DigitValue(c) ==
  CASE c = "0" -> 0 [] c = "1" -> 1 [] c = "2" -> 2 [] c = "3" -> 3
    [] c = "4" -> 4 [] c = "5" -> 5 [] c = "6" -> 6 [] c = "7" -> 7
    [] c = "8" -> 8 [] c = "9" -> 9

RECURSIVE ParseInt(_)
ParseInt(s) ==
  IF s = << >> THEN 0
  ELSE 10 * ParseInt(SubSeq(s, 1, Len(s) - 1)) + DigitValue(s[Len(s)])

AllDigits(s) == Len(s) >= 1 /\ \A i \in 1..Len(s) : s[i] \in Digits

\* str.lower() on the characters the error texts use
LowerChar(c) ==
  CASE c = "A" -> "a" [] c = "B" -> "b" [] c = "C" -> "c" [] c = "D" -> "d"
    [] c = "E" -> "e" [] c = "F" -> "f" [] c = "G" -> "g" [] c = "H" -> "h"
    [] c = "I" -> "i" [] c = "J" -> "j" [] c = "K" -> "k" [] c = "L" -> "l"
    [] c = "M" -> "m" [] c = "N" -> "n" [] c = "O" -> "o" [] c = "P" -> "p"
    [] c = "Q" -> "q" [] c = "R" -> "r" [] c = "S" -> "s" [] c = "T" -> "t"
    [] c = "U" -> "u" [] c = "V" -> "v" [] c = "W" -> "w" [] c = "X" -> "x"
    [] c = "Y" -> "y" [] c = "Z" -> "z"
    [] OTHER -> c

lower(s) == [i \in 1..Len(s) |-> LowerChar(s[i])]

\* Python's `needle in text`
Contains(text, needle) ==
  \E i \in 1..(Len(text) - Len(needle) + 1) :
    SubSeq(text, i, i + Len(needle) - 1) = needle

(***************************************************************************)
(* Dates: datetime.strptime(s, "%Y-%m-%d").date() on zero-padded text.     *)
(***************************************************************************)
IsLeap(y) == (y % 4 = 0 /\ y % 100 # 0) \/ y % 400 = 0

DaysInMonth(y, m) ==
  IF m = 2 THEN (IF IsLeap(y) THEN 29 ELSE 28)
  ELSE IF m \in {4, 6, 9, 11} THEN 30 ELSE 31

strptime(s) ==
  IF /\ Len(s) = 10
     /\ s[5] = "-" /\ s[8] = "-"
     /\ \A i \in {1, 2, 3, 4, 6, 7, 9, 10} : s[i] \in Digits
  THEN LET y == ParseInt(SubSeq(s, 1, 4))
           m == ParseInt(SubSeq(s, 6, 7))
           d == ParseInt(SubSeq(s, 9, 10))
       IN IF y >= 1 /\ m \in 1..12 /\ d \in 1..DaysInMonth(y, m)
          THEN [ok |-> TRUE, year |-> y, month |-> m, day |-> d]
          ELSE [ok |-> FALSE]
  ELSE [ok |-> FALSE]

(***************************************************************************)
(* Dates as proleptic Gregorian ordinals (date.toordinal(): 0001-01-01 is  *)
(* day 1, a Monday), with the arithmetic of datetime and timedelta.        *)
(***************************************************************************)
DaysBeforeYear(y) ==
  (y - 1) * 365 + ((y - 1) \div 4) - ((y - 1) \div 100) + ((y - 1) \div 400)

RECURSIVE DaysBeforeMonth(_, _)
DaysBeforeMonth(y, m) ==
  IF m = 1 THEN 0 ELSE DaysBeforeMonth(y, m - 1) + DaysInMonth(y, m - 1)

\* datetime(y, m, d).toordinal()
toordinal(y, m, d) == DaysBeforeYear(y) + DaysBeforeMonth(y, m) + d

\* the years the modelled days lie in
Years == 2023..2026

\* d.year
YearOf(o) ==
  CHOOSE y \in Years : toordinal(y, 1, 1) <= o /\ o < toordinal(y + 1, 1, 1)

\* d.month
MonthOf(o) ==
  LET y == YearOf(o)
      n == o - toordinal(y, 1, 1) + 1
  IN CHOOSE m \in 1..12 :
       DaysBeforeMonth(y, m) < n /\ n <= DaysBeforeMonth(y, m) + DaysInMonth(y, m)

\* d.day
DayOf(o) == o - toordinal(YearOf(o), MonthOf(o), 1) + 1

\* d.weekday(): Monday is 0, Sunday is 6
weekday(o) == (o + 6) % 7

DigitChar(n) ==
  CASE n = 0 -> "0" [] n = 1 -> "1" [] n = 2 -> "2" [] n = 3 -> "3"
    [] n = 4 -> "4" [] n = 5 -> "5" [] n = 6 -> "6" [] n = 7 -> "7"
    [] n = 8 -> "8" [] n = 9 -> "9"

\* n written with `width` digits, zero-padded
RECURSIVE Padded(_, _)
Padded(n, width) ==
  IF width = 0 THEN << >>
  ELSE Append(Padded(n \div 10, width - 1), DigitChar(n % 10))

\* d.strftime('%Y-%m-%d')
strftime(o) ==
  Padded(YearOf(o), 4) \o <<"-">> \o Padded(MonthOf(o), 2) \o <<"-">>
    \o Padded(DayOf(o), 2)

\* the days the nightly trigger lives through: from Monday 2024-12-30
FirstSchedulerDay == toordinal(2024, 12, 30)

MaxSchedulerDays == 2

SchedulerDays == FirstSchedulerDay..(FirstSchedulerDay + MaxSchedulerDays)

\* tomorrow = datetime.now() with no day added
Tomorrow_SameDay(now) == now

\* tomorrow = datetime.now() + timedelta(days=1)
Tomorrow(now) == now + 1

\* the target_date strings the nightly job passes
NightlyDates == {strftime(Tomorrow(o)) : o \in SchedulerDays}

(***************************************************************************)
(* JSON values.                                                            *)
(***************************************************************************)
JStr(s) == [t |-> "str", s |-> s]
JInt(n) == [t |-> "int", n |-> n]
JNull == [t |-> "null"]
JList(l) == [t |-> "list", l |-> l]
JObj(o) == [t |-> "obj", o |-> o]

\* a response text: either the serialisation of a JSON value or not JSON
JsonText(v) == [json |-> TRUE, value |-> v]
NotJsonText == [json |-> FALSE]

json_loads(text) ==
  IF text.json THEN [ok |-> TRUE, value |-> text.value] ELSE [ok |-> FALSE]

(***************************************************************************)
(* The plan schema (pydantic models of schemas.py).  A str field takes a   *)
(* JSON string only; an int field takes an integer or a string of digits   *)
(* and yields the integer; unknown keys are ignored.                       *)
(***************************************************************************)
Has(o, f) == f \in DOMAIN o

StrField(o, f) == Has(o, f) /\ o[f].t = "str"

IntField(o, f) ==
  Has(o, f) /\ (o[f].t = "int" \/ (o[f].t = "str" /\ AllDigits(o[f].s)))

IntOf(v) == IF v.t = "int" THEN v.n ELSE ParseInt(v.s)

\* ^\d{2}:\d{2}$
TimePattern(s) ==
  /\ Len(s) = 5
  /\ s[3] = ":"
  /\ \A i \in {1, 2, 4, 5} : s[i] \in Digits

\* ^\d{4}-\d{2}-\d{2}$
DatePattern(s) ==
  /\ Len(s) = 10
  /\ s[5] = "-" /\ s[8] = "-"
  /\ \A i \in {1, 2, 3, 4, 6, 7, 9, 10} : s[i] \in Digits

\* ^[0-9a-f-]{36}$
IdPattern(s) == Len(s) = 36 /\ \A i \in 1..36 : s[i] \in HexDigitsAndDash

on_track == <<"o", "n", "_", "t", "r", "a", "c", "k">>
at_risk == <<"a", "t", "_", "r", "i", "s", "k">>
blocked == <<"b", "l", "o", "c", "k", "e", "d">>

TimeBlockOk(v) ==
  /\ v.t = "obj"
  /\ StrField(v.o, "start_time") /\ TimePattern(v.o.start_time.s)
  /\ StrField(v.o, "end_time") /\ TimePattern(v.o.end_time.s)
  /\ Has(v.o, "task_id") =>
       \/ v.o.task_id.t = "null"
       \/ v.o.task_id.t = "str" /\ IdPattern(v.o.task_id.s)
  /\ StrField(v.o, "activity") /\ Len(v.o.activity.s) >= 1
  /\ IntField(v.o, "priority")
  /\ IntOf(v.o.priority) >= 1 /\ IntOf(v.o.priority) <= 5
  /\ StrField(v.o, "reasoning") /\ Len(v.o.reasoning.s) >= 1

TimeBlock(v) ==
  JObj([start_time |-> v.o.start_time,
        end_time |-> v.o.end_time,
        task_id |-> IF Has(v.o, "task_id") THEN v.o.task_id ELSE JNull,
        activity |-> v.o.activity,
        priority |-> JInt(IntOf(v.o.priority)),
        reasoning |-> v.o.reasoning])

GoalProgressOk(v) ==
  /\ v.t = "obj"
  /\ StrField(v.o, "goal_id") /\ IdPattern(v.o.goal_id.s)
  /\ StrField(v.o, "status")
  /\ v.o.status.s \in {on_track, at_risk, blocked}
  /\ StrField(v.o, "action_needed")

GoalProgress(v) ==
  JObj([goal_id |-> v.o.goal_id,
        status |-> v.o.status,
        action_needed |-> v.o.action_needed])

SocialTimeOk(v) ==
  /\ v.t = "obj"
  /\ IntField(v.o, "total_minutes") /\ IntOf(v.o.total_minutes) >= 0
  /\ StrField(v.o, "reasoning") /\ Len(v.o.reasoning.s) >= 1

SocialTime(v) ==
  JObj([total_minutes |-> JInt(IntOf(v.o.total_minutes)),
        reasoning |-> v.o.reasoning])

\* DailyPlanOk without the minimum length of reasoning
DailyPlanOk_NoMinLength(v) ==
  /\ v.t = "obj"
  /\ StrField(v.o, "date") /\ DatePattern(v.o.date.s)
  /\ StrField(v.o, "reasoning")
  /\ StrField(v.o, "priority_analysis") /\ Len(v.o.priority_analysis.s) >= 10
  /\ Has(v.o, "time_blocks") /\ v.o.time_blocks.t = "list"
  /\ \A i \in 1..Len(v.o.time_blocks.l) : TimeBlockOk(v.o.time_blocks.l[i])
  /\ Has(v.o, "social_time_allocation")
  /\ SocialTimeOk(v.o.social_time_allocation)
  /\ Has(v.o, "goal_progress_assessment")
  /\ v.o.goal_progress_assessment.t = "list"
  /\ \A i \in 1..Len(v.o.goal_progress_assessment.l) :
       GoalProgressOk(v.o.goal_progress_assessment.l[i])
  /\ Has(v.o, "warnings") /\ v.o.warnings.t = "list"
  /\ \A i \in 1..Len(v.o.warnings.l) : v.o.warnings.l[i].t = "str"

DailyPlanOk(v) ==
  /\ v.t = "obj"
  /\ StrField(v.o, "date") /\ DatePattern(v.o.date.s)
  /\ StrField(v.o, "reasoning") /\ Len(v.o.reasoning.s) >= 10
  /\ StrField(v.o, "priority_analysis") /\ Len(v.o.priority_analysis.s) >= 10
  /\ Has(v.o, "time_blocks") /\ v.o.time_blocks.t = "list"
  /\ \A i \in 1..Len(v.o.time_blocks.l) : TimeBlockOk(v.o.time_blocks.l[i])
  /\ Has(v.o, "social_time_allocation")
  /\ SocialTimeOk(v.o.social_time_allocation)
  /\ Has(v.o, "goal_progress_assessment")
  /\ v.o.goal_progress_assessment.t = "list"
  /\ \A i \in 1..Len(v.o.goal_progress_assessment.l) :
       GoalProgressOk(v.o.goal_progress_assessment.l[i])
  /\ Has(v.o, "warnings") /\ v.o.warnings.t = "list"
  /\ \A i \in 1..Len(v.o.warnings.l) : v.o.warnings.l[i].t = "str"

\* DailyPlan(**plan_data).dict(): the fields of the model, coerced
DailyPlan(v) ==
  JObj([date |-> v.o.date,
        reasoning |-> v.o.reasoning,
        priority_analysis |-> v.o.priority_analysis,
        time_blocks |->
          JList([i \in 1..Len(v.o.time_blocks.l) |->
                   TimeBlock(v.o.time_blocks.l[i])]),
        social_time_allocation |-> SocialTime(v.o.social_time_allocation),
        goal_progress_assessment |->
          JList([i \in 1..Len(v.o.goal_progress_assessment.l) |->
                   GoalProgress(v.o.goal_progress_assessment.l[i])]),
        warnings |-> v.o.warnings])

NoPlan == [t |-> "none"]

NoPlanName == ""

\* validate_plan: the model on success, ValueError("Invalid plan structure")
\* on any exception of the constructor (a non-object argument included)
validate_plan(plan_data) ==
  IF DailyPlanOk(plan_data)
  THEN [ok |-> TRUE, plan |-> DailyPlan(plan_data)]
  ELSE [ok |-> FALSE, plan |-> NoPlan]

(***************************************************************************)
(* What the provider can answer: response texts, by name, and error texts. *)
(***************************************************************************)
TargetDate1 == <<"2", "0", "2", "5", "-", "0", "3", "-", "1", "0">>
TargetDate2 == <<"2", "0", "2", "5", "-", "0", "3", "-", "1", "1">>

\* the target_date strings a caller passes
TargetDates == {TargetDate1, TargetDate2}

NewDueDate2 == <<"2", "0", "2", "5", "-", "0", "3", "-", "1", "2">>

\* the new_date arguments of reschedule_task: the days after TargetDate1
\* and TargetDate2
NewDueDates == {TargetDate2, NewDueDate2}

PlanObject(date, reasoning, priority, minutes, status, extra) ==
  LET base ==
        [date |-> JStr(date),
         reasoning |-> JStr(reasoning),
         priority_analysis |-> JStr(Rep("p", 10)),
         time_blocks |->
           JList(<<JObj([start_time |-> JStr(<<"0", "9", ":", "0", "0">>),
                         end_time |-> JStr(<<"1", "0", ":", "3", "0">>),
                         activity |-> JStr(Rep("w", 4)),
                         priority |-> priority,
                         reasoning |-> JStr(Rep("r", 1))])>>),
         social_time_allocation |->
           JObj([total_minutes |-> minutes, reasoning |-> JStr(Rep("s", 3))]),
         goal_progress_assessment |->
           JList(<<JObj([goal_id |-> JStr(Rep("0", 36)),
                         status |-> JStr(status),
                         action_needed |-> JStr(<< >>)])>>),
         warnings |-> JList(<< >>)]
  IN JObj(IF extra THEN base @@ [comment |-> JInt(1)] ELSE base)

Responses ==
  {"planA", "planB", "shortReasoning", "badDate", "badPriority",
   "negativeMinutes", "badStatus", "array", "notJson"}

ValidResponses == {"planA", "planB"}

\* the content of the provider's message, by name
ResponseText(r) ==
  CASE r = "planA" ->
         JsonText(PlanObject(TargetDate1, Rep("a", 10), JInt(5), JInt(0),
                             on_track, FALSE))
    [] r = "planB" ->
         JsonText(PlanObject(TargetDate2, Rep("b", 12), JStr(<<"3">>),
                             JInt(120), blocked, TRUE))
    [] r = "shortReasoning" ->
         JsonText(PlanObject(TargetDate1, Rep("a", 9), JInt(5), JInt(0),
                             on_track, FALSE))
    [] r = "badDate" ->
         JsonText(PlanObject(<<"2", "0", "2", "5", "-", "3", "-", "1", "0">>,
                             Rep("a", 10), JInt(5), JInt(0), on_track, FALSE))
    [] r = "badPriority" ->
         JsonText(PlanObject(TargetDate1, Rep("a", 10), JInt(6), JInt(0),
                             on_track, FALSE))
    [] r = "negativeMinutes" ->
         JsonText(PlanObject(TargetDate1, Rep("a", 10), JInt(5), JInt(0 - 1),
                             on_track, FALSE))
    [] r = "badStatus" ->
         JsonText(PlanObject(TargetDate1, Rep("a", 10), JInt(5), JInt(0),
                             <<"d", "o", "n", "e">>, FALSE))
    [] r = "array" -> JsonText(JList(<< >>))
    [] r = "notJson" -> NotJsonText

NoText == << >>

ErrRateLimit == <<"R", "a", "t", "e", " ", "l", "i", "m", "i", "t">>
ErrInvalidRequest ==
  <<"I", "n", "v", "a", "l", "i", "d", " ", "r", "e", "q", "u", "e", "s", "t">>

\* str(error) of the exceptions acompletion raises
\* LLMClient.generate_plan's json.loads and the orchestrator's validate_plan
\* on the response named r
LoadAndValidate(r) ==
  LET loaded == json_loads(ResponseText(r))
  IN IF ~loaded.ok
     THEN [json_ok |-> FALSE, ok |-> FALSE, plan |-> NoPlan]
     ELSE LET v == validate_plan(loaded.value)
          IN [json_ok |-> TRUE, ok |-> v.ok, plan |-> v.plan]

\* LoadAndValidate, tabulated
Validated == [r \in Responses |-> LoadAndValidate(r)]

\* A validated plan is held in the state by the name of the response it was
\* built from; this is its value, the plan.dict() of the validated model.
PlanValue(name) == IF name = NoPlanName THEN NoPlan ELSE Validated[name].plan

ErrorTexts == {ErrRateLimit, ErrInvalidRequest}

ErrTemporarilyUnavailable ==
  <<"T", "e", "m", "p", "o", "r", "a", "r", "i", "l", "y", " ", "u", "n", "a",
    "v", "a", "i", "l", "a", "b", "l", "e">>

ErrBadGateway == <<"H", "T", "T", "P", " ", "5", "0", "2">>

ErrServiceUnavailable ==
  <<"S", "e", "r", "v", "i", "c", "e", " ", "U", "n", "a", "v", "a", "i", "l",
    "a", "b", "l", "e">>

\* the texts of the errors acompletion raises to reschedule_task's engine
ClientErrorTexts ==
  ErrorTexts \cup {ErrTemporarilyUnavailable, ErrBadGateway,
                   ErrServiceUnavailable}

(***************************************************************************)
(* LLMClient.complete: classification of an error, the loop's exit test,   *)
(* the backoff delay and the error raised after the loop.                  *)
(***************************************************************************)
RetryableCodes ==
  {<<"r", "a", "t", "e", " ", "l", "i", "m", "i", "t">>,
   <<"t", "i", "m", "e", "o", "u", "t">>,
   <<"c", "o", "n", "n", "e", "c", "t", "i", "o", "n">>,
   <<"n", "e", "t", "w", "o", "r", "k">>,
   <<"t", "e", "m", "p", "o", "r", "a", "r", "y">>,
   <<"s", "e", "r", "v", "i", "c", "e", " ", "u", "n", "a", "v", "a", "i", "l",
     "a", "b", "l", "e">>,
   <<"4", "2", "9">>, <<"5", "0", "2">>, <<"5", "0", "3">>, <<"5", "0", "4">>}

\* IsRetryable with an empty string among the codes
IsRetryable_EmptyCode(error) ==
  \E code \in RetryableCodes \cup {<< >>} : Contains(lower(error), code)

\* IsRetryable on str(error) itself, not on its lower-case form
IsRetryable_CaseSensitive(error) ==
  \E code \in RetryableCodes : Contains(error, code)

\* retryable = any(code in error_str ...), error_str = str(error).lower()
IsRetryable(error) == \E code \in RetryableCodes : Contains(lower(error), code)

\* IsRetryable, tabulated
Retryable == [e \in ClientErrorTexts |-> IsRetryable(e)]

\* BreaksLoop without `not retryable`
BreaksLoop_RetriesAll(retryable, attempt) ==
  attempt = LLMClient_max_retries - 1

\* `if not retryable or attempt == self.max_retries - 1: break`
BreaksLoop(retryable, attempt) ==
  ~retryable \/ attempt = LLMClient_max_retries - 1

\* BackoffDelay with the exponent one too high
BackoffDelay_OffByOne(attempt) == LLMClient_retry_delay * (2 ^ (attempt + 1))

\* delay = self.retry_delay * (2 ** attempt)
BackoffDelay(attempt) == LLMClient_retry_delay * (2 ^ attempt)

NoError == [raised |-> FALSE]

\* LLMError(f"LLM API call failed after {self.max_retries} attempts",
\* last_error): retry_count keeps its default
LLMError(last_error) ==
  [raised |-> TRUE,
   message_attempts |-> LLMClient_max_retries,
   original_error |-> last_error,
   retry_count |-> 0]

\* the events of a complete invocation: a provider call with its outcome
\* (the content returned, or the error raised and its classification) ...
CallEvent(ok, content, error, retryable) ==
  [ev |-> "call", ok |-> ok, content |-> content, error |-> error,
   retryable |-> retryable, delay |-> 0]

\* ... and a backoff sleep with its delay
SleepEvent(delay) ==
  [ev |-> "sleep", ok |-> FALSE, content |-> "", error |-> NoText,
   retryable |-> FALSE, delay |-> delay]

(***************************************************************************)
(* The daily_plans table.  A row is identified by its id; the table has    *)
(* the unique constraint daily_plans_user_date_unique.                     *)
(***************************************************************************)
User == "u1"

\* plan.get('reasoning', '')
plan_get_reasoning(plan) ==
  IF plan.t = "obj" /\ Has(plan.o, "reasoning") THEN plan.o.reasoning.s
  ELSE NoText

\* plan_get_reasoning of the plan held under each name, tabulated
ReasoningOf ==
  [name \in Responses \cup {NoPlanName} |-> plan_get_reasoning(PlanValue(name))]

\* datetime.strptime(plan_date, '%Y-%m-%d').date(), tabulated
DateOf ==
  [d \in TargetDates \cup NightlyDates \cup NewDueDates |-> strptime(d)]

NewRow(user_id, plan_date, plan, now) ==
  [id |-> now,
   user_id |-> user_id,
   plan_date |-> plan_date,
   plan_json |-> plan,
   reasoning |-> ReasoningOf[plan],
   generated_at |-> now,
   modified_at |-> now,
   is_override |-> FALSE]

\* Upsert as a plain INSERT on a table without the unique constraint
Upsert_AlwaysInsert(rows, user_id, plan_date, plan, now) ==
  rows \cup {NewRow(user_id, plan_date, plan, now)}

\* Upsert with ON CONFLICT DO NOTHING
Upsert_DoNothing(rows, user_id, plan_date, plan, now) ==
  IF \E r \in rows : r.user_id = user_id /\ r.plan_date = plan_date
  THEN rows
  ELSE rows \cup {NewRow(user_id, plan_date, plan, now)}

\* Upsert whose DO UPDATE leaves the reasoning column out
Upsert_KeepsReasoning(rows, user_id, plan_date, plan, now) ==
  IF \E r \in rows : r.user_id = user_id /\ r.plan_date = plan_date
  THEN {IF r.user_id = user_id /\ r.plan_date = plan_date
        THEN [r EXCEPT !.plan_json = plan, !.modified_at = now]
        ELSE r : r \in rows}
  ELSE rows \cup {NewRow(user_id, plan_date, plan, now)}

\* Upsert as DELETE of the row in conflict followed by INSERT
Upsert_Replaces(rows, user_id, plan_date, plan, now) ==
  {r \in rows : ~(r.user_id = user_id /\ r.plan_date = plan_date)}
    \cup {NewRow(user_id, plan_date, plan, now)}

\* INSERT ... ON CONFLICT (user_id, plan_date) DO UPDATE SET plan_json,
\* reasoning, modified_at: one statement of the store
Upsert(rows, user_id, plan_date, plan, now) ==
  IF \E r \in rows : r.user_id = user_id /\ r.plan_date = plan_date
  THEN {IF r.user_id = user_id /\ r.plan_date = plan_date
        THEN [r EXCEPT !.plan_json = plan,
                       !.reasoning = ReasoningOf[plan],
                       !.modified_at = now]
        ELSE r : r \in rows}
  ELSE rows \cup {NewRow(user_id, plan_date, plan, now)}

(***************************************************************************)
(* State.                                                                  *)
(***************************************************************************)
VARIABLES
  env_key,       \* os.environ holds LLM_API_KEY
  settings_key,  \* settings.llm_api_key is set
  daily_plans,   \* the rows of the daily_plans table
  clock,         \* the store's time, one tick per write
  calls,         \* generate_daily_plan invocations started so far
  proc,          \* the two executions: the request handler, the nightly job
  today,         \* the date of datetime.now(), as an ordinal
  users,         \* the rows of the users table
  env_max_overrides, \* os.environ's MAX_WEEKLY_OVERRIDES, NoText when unset
  override_log,  \* the rows of the override_log table
  override_calls,\* override_plan requests started so far
  oproc,         \* the executions of the override_plan handler
  scheduler,     \* _scheduler_instance and its AsyncIOScheduler
  job,           \* the execution of _nightly_planning_job
  tasks,         \* the rows of the tasks table
  calendar_events, \* the rows of the calendar_events table
  reschedules,   \* reschedule_task invocations started so far
  task_updates,  \* the update_task requests handled so far
  rproc,         \* the execution of reschedule_task
  meter          \* acompletion calls and backoff sleeps of the invocation

override_vars == <<env_max_overrides, override_log, override_calls, oproc>>

scheduler_vars == <<scheduler, job>>

task_vars == <<tasks, calendar_events, reschedules, task_updates, rproc>>

vars ==
  <<env_key, settings_key, daily_plans, clock, calls, proc, today, users,
    env_max_overrides, override_log, override_calls, oproc, scheduler, job,
    tasks, calendar_events, reschedules, task_updates, rproc, meter>>

Procs == {"request", "nightly"}

\* the context before gather_planning_context has returned one
NoContext == [date |-> NoText, calendarEvents |-> {}]

Idle ==
  [pc |-> "idle",
   target_date |-> NoText,
   attempt |-> 0,               \* the orchestrator's loop variable
   llm_attempt |-> 0,           \* complete's loop variable
   last_error |-> NoText,       \* complete's last_error
   delay |-> 0,                 \* the delay being slept
   gen_last_error |-> "",       \* the orchestrator's last_error
   plan |-> NoPlanName,         \* the validated plan
   outcome |-> "",
   error |-> NoText,            \* message of a configuration error
   result |-> NoPlanName,       \* the returned plan.dict()
   trace |-> << >>,             \* events of the latest complete invocation
   complete_raised |-> NoError, \* what the latest complete invocation raised
   attempts_made |-> 0,         \* orchestrator attempts begun
   writes |-> 0,                \* rows this invocation wrote
   raced |-> FALSE,             \* it wrote while the other was in flight
   context |-> NoContext]       \* what gather_planning_context returned

\* the override_plan handlers that can be in flight together
OProcs == {"o1", "o2"}

\* the status dictionary before check_weekly_overrides has returned one
NoStatus == [count |-> 0, remaining |-> 0, limit |-> 0, canOverride |-> FALSE]

OIdle ==
  [pc |-> "idle",
   override_check |-> NoStatus,     \* override_check of the route
   updated_overrides |-> NoStatus,  \* updated_overrides of the route
   outcome |-> "",
   override_status |-> NoStatus,    \* OverrideLimitError.override_status
   inserted |-> 0]                  \* rows this request inserted

\* _scheduler_instance is None
NoScheduler ==
  [instance |-> FALSE, scheduler_started |-> FALSE, running |-> FALSE,
   jobs |-> << >>, starts |-> 0, last_start |-> ""]

\* the scheduler once start_planning_scheduler has returned
StartedScheduler ==
  [instance |-> TRUE, scheduler_started |-> TRUE, running |-> TRUE,
   jobs |-> <<"nightly_planning">>, starts |-> 1, last_start |-> "started"]

JobIdle ==
  [pc |-> "idle",
   fired_on |-> 0,             \* the day of the latest firing
   invocations |-> 0,          \* generate_daily_plan calls of that firing
   target_date |-> NoText,     \* the target_date of that call
   result |-> "",              \* how the latest firing ended
   failures |-> 0]             \* firings that ended with a logged error

\* reschedule_task before it is called
RIdle ==
  [pc |-> "idle",
   task_id |-> "",
   new_date |-> NoText,
   plan_date |-> NoText,      \* plan_date_str
   before |-> {},             \* daily_plans when it was called
   invocations |-> 0,         \* generate_daily_plan calls it made
   outcome |-> ""]

\* no acompletion call and no asyncio.sleep yet
NoMeter == [provider_calls |-> 0, sleeps |-> 0]

\* the day the planning requests are made on: 2025-03-10
PlanningDay == toordinal(2025, 3, 10)

Init ==
  /\ env_key \in BOOLEAN
  /\ settings_key \in BOOLEAN
  /\ daily_plans = {}
  /\ clock = 1
  /\ calls = 0
  /\ proc = [p \in Procs |-> Idle]
  /\ today = PlanningDay
  /\ users = {User}
  /\ env_max_overrides = NoText
  /\ override_log = {}
  /\ override_calls = 0
  /\ oproc = [o \in OProcs |-> OIdle]
  /\ scheduler = IF settings_key THEN StartedScheduler ELSE NoScheduler
  /\ job = JobIdle
  /\ tasks = {}
  /\ calendar_events = {}
  /\ reschedules = 0
  /\ task_updates = << >>
  /\ rproc = RIdle
  /\ meter = NoMeter

Set(p, c) == proc' = [proc EXCEPT ![p] = c]

(***************************************************************************)
(* PlanningEngine.generate_daily_plan, from its entry to the first await.  *)
(***************************************************************************)
\* target_date_obj = datetime.strptime(target_date, "%Y-%m-%d").date()
generate_daily_plan(c, target_date) ==
  IF DateOf[target_date].ok
  THEN [c EXCEPT !.pc = "gather", !.target_date = target_date]
  ELSE [c EXCEPT !.pc = "done", !.outcome = "value_error",
                 !.target_date = target_date]

LLMNotConfigured ==
  <<"L", "L", "M", " ", "n", "o", "t", " ", "c", "o", "n", "f", "i", "g", "u",
    "r", "e", "d", ".", " ", "S", "e", "t", " ", "L", "L", "M", "_", "A", "P",
    "I", "_", "K", "E", "Y", " ", "i", "n", " ", ".", "e", "n", "v", " ", "f",
    "i", "l", "e">>

ApiKeyNotConfigured ==
  <<"L", "L", "M", "_", "A", "P", "I", "_", "K", "E", "Y", " ", "n", "o", "t",
    " ", "c", "o", "n", "f", "i", "g", "u", "r", "e", "d">>

\* the route without its check of the environment
RouteKeyMissing_Never(env) == FALSE

\* `if not os.environ.get('LLM_API_KEY')` of the route
RouteKeyMissing(env) == ~env

\* `if not self.api_key` of LLMClient.__init__
ClientKeyMissing(key) == ~key

\* POST /generate-plan: the handler up to its first await
generate_plan_route(target_date) ==
  /\ proc["request"].pc = "idle"
  /\ calls < MaxCalls
  /\ calls' = calls + 1
  /\ IF RouteKeyMissing(env_key)
     THEN Set("request", [Idle EXCEPT !.pc = "done",
                                      !.outcome = "not_configured",
                                      !.error = LLMNotConfigured])
     ELSE IF ClientKeyMissing(settings_key)
     THEN Set("request", [Idle EXCEPT !.pc = "done",
                                      !.outcome = "not_configured",
                                      !.error = ApiKeyNotConfigured])
     ELSE Set("request", generate_daily_plan(Idle, target_date))
  /\ UNCHANGED <<task_vars, meter>>
  /\ UNCHANGED <<env_key, settings_key, daily_plans, clock>>
  /\ UNCHANGED <<today, users, override_vars, scheduler_vars>>

\* _nightly_planning_job, for the date it computes; the scheduler exists
\* only if PlanningScheduler() could build its PlanningEngine
\* tomorrow = datetime.now() + timedelta(days=1), as '%Y-%m-%d': the
\* behaviours modelled lie within one day
NightlyTargetDate == TargetDate2

nightly_planning_job(target_date) ==
  /\ proc["nightly"].pc = "idle"
  /\ ~ClientKeyMissing(settings_key)
  /\ calls < MaxCalls
  /\ calls' = calls + 1
  /\ Set("nightly", generate_daily_plan(Idle, target_date))
  /\ UNCHANGED <<task_vars, meter>>
  /\ UNCHANGED <<env_key, settings_key, daily_plans, clock>>
  /\ UNCHANGED <<today, users, override_vars, scheduler_vars>>

(***************************************************************************)
(* gather_planning_context: reads of the store.                            *)
(***************************************************************************)
\* the context: 'date' is target_date and 'calendarEvents' the rows of
\* SELECT ... FROM calendar_events WHERE user_id = $1 ORDER BY start_time;
\* tomorrow_str is computed and used by no query
gather_planning_context(events, user_id, target_date) ==
  [date |-> target_date,
   calendarEvents |-> {e \in events : e.user_id = user_id}]

\* the first orchestrator attempt begins: generate_plan calls complete
GatherContext(p) ==
  /\ proc[p].pc = "gather"
  /\ Set(p, [proc[p] EXCEPT !.pc = "call", !.attempt = 0, !.llm_attempt = 0,
                            !.attempts_made = 1,
                            !.context =
                               gather_planning_context(calendar_events, User,
                                                       proc[p].target_date)])
  /\ UNCHANGED <<task_vars, meter>>
  /\ UNCHANGED <<env_key, settings_key, daily_plans, clock, calls>>
  /\ UNCHANGED <<today, users, override_vars, scheduler_vars>>

\* a query raises DatabaseError
GatherContextFails(p) ==
  /\ proc[p].pc = "gather"
  /\ Set(p, [proc[p] EXCEPT !.pc = "done", !.outcome = "database_error"])
  /\ UNCHANGED <<task_vars, meter>>
  /\ UNCHANGED <<env_key, settings_key, daily_plans, clock, calls>>
  /\ UNCHANGED <<today, users, override_vars, scheduler_vars>>

(***************************************************************************)
(* The orchestrator's loop around generate_plan and validate_plan.         *)
(***************************************************************************)
\* AfterLoop without `if not plan: raise`
AfterLoop_NoCheck(c) == [c EXCEPT !.pc = "save"]

\* after the loop: `if not plan: raise Exception(...)`, else save_plan
AfterLoop(c) ==
  IF c.plan = NoPlanName
  THEN [c EXCEPT !.pc = "done", !.outcome = "generation_failed"]
  ELSE [c EXCEPT !.pc = "save"]

\* AttemptFailed in a loop of max_retries + 1 iterations
AttemptFailed_OneMore(c, error) ==
  LET c1 == [c EXCEPT !.gen_last_error = error]
  IN IF c.attempt + 1 < PlanningEngine_max_retries + 1
     THEN [c1 EXCEPT !.attempt = c.attempt + 1,
                     !.llm_attempt = 0,
                     !.last_error = NoText,
                     !.attempts_made = c.attempts_made + 1,
                     !.pc = "call"]
     ELSE AfterLoop(c1)

\* `except Exception as error` and the next iteration of the loop
AttemptFailed(c, error) ==
  LET c1 == [c EXCEPT !.gen_last_error = error]
  IN IF c.attempt + 1 < PlanningEngine_max_retries
     THEN [c1 EXCEPT !.attempt = c.attempt + 1,
                     !.llm_attempt = 0,
                     !.last_error = NoText,
                     !.attempts_made = c.attempts_made + 1,
                     !.pc = "call"]
     ELSE AfterLoop(c1)

\* generate_plan calling complete again when the text is not JSON
ParseAndValidate_RetriesJson(c, content) ==
  LET v == Validated[content]
  IN IF ~v.json_ok
     THEN [c EXCEPT !.pc = "call", !.llm_attempt = 0, !.last_error = NoText]
     ELSE IF v.ok
     THEN AfterLoop([c EXCEPT !.plan = content])
     ELSE AttemptFailed(c, "Invalid plan structure")

\* generate_plan's json.loads, then validate_plan, then `break`
ParseAndValidate(c, content) ==
  LET v == Validated[content]
  IN IF ~v.json_ok
     THEN AttemptFailed(c, "LLM returned invalid JSON")
     ELSE IF v.ok
     THEN AfterLoop([c EXCEPT !.plan = content])
     ELSE AttemptFailed(c, "Invalid plan structure")

\* the error complete raises after its loop, caught by generate_plan's
\* `except Exception` and raised again as LLMError("Plan generation failed"),
\* which the orchestrator catches
CompleteRaises(c) ==
  AttemptFailed([c EXCEPT !.complete_raised = LLMError(c.last_error)],
                "Plan generation failed")

\* the events of this complete invocation, e appended
Traced(c, e) ==
  IF c.llm_attempt = 0 THEN <<e>> ELSE Append(c.trace, e)

\* acompletion returns a message: complete returns its content
ProviderReturns(p, content) ==
  /\ proc[p].pc = "call"
  /\ LET c == [proc[p] EXCEPT
                 !.trace = Traced(proc[p],
                                 CallEvent(TRUE, content, NoText, FALSE)),
                 !.complete_raised = NoError]
     IN Set(p, ParseAndValidate(c, content))
  /\ UNCHANGED task_vars
  /\ UNCHANGED <<env_key, settings_key, daily_plans, clock, calls>>
  /\ UNCHANGED <<today, users, override_vars, scheduler_vars>>

\* acompletion raises: complete's `except Exception as error`
ProviderFails(p, error) ==
  /\ proc[p].pc = "call"
  /\ LET retryable == Retryable[error]
         c == [proc[p] EXCEPT
                 !.last_error = error,
                 !.trace = Traced(proc[p],
                                 CallEvent(FALSE, "", error, retryable)),
                 !.complete_raised = NoError]
     IN IF BreaksLoop(retryable, c.llm_attempt)
        THEN Set(p, CompleteRaises(c))
        ELSE Set(p, [c EXCEPT !.pc = "sleep",
                              !.delay = BackoffDelay(c.llm_attempt)])
  /\ UNCHANGED task_vars
  /\ UNCHANGED <<env_key, settings_key, daily_plans, clock, calls>>
  /\ UNCHANGED <<today, users, override_vars, scheduler_vars>>

\* asyncio.sleep(delay) ends: the next iteration of
\* `for attempt in range(self.max_retries)`, or the end of the loop
Sleep(p) ==
  /\ proc[p].pc = "sleep"
  /\ LET c == [proc[p] EXCEPT !.trace = Append(@, SleepEvent(proc[p].delay)),
                              !.delay = 0]
     IN IF c.llm_attempt + 1 < LLMClient_max_retries
        THEN Set(p, [c EXCEPT !.pc = "call", !.llm_attempt = @ + 1])
        ELSE Set(p, CompleteRaises(c))
  /\ UNCHANGED task_vars
  /\ UNCHANGED <<env_key, settings_key, daily_plans, clock, calls>>
  /\ UNCHANGED <<today, users, override_vars, scheduler_vars>>

(***************************************************************************)
(* save_plan and the return of generate_daily_plan.                        *)
(***************************************************************************)
save_plan(p) ==
  /\ proc[p].pc = "save"
  /\ daily_plans' = Upsert(daily_plans, User, DateOf[proc[p].target_date],
                           proc[p].plan, clock)
  /\ clock' = clock + 1
  /\ Set(p, [proc[p] EXCEPT
                !.pc = "done", !.outcome = "returned",
                !.result = proc[p].plan,
                !.writes = @ + 1,
                !.raced = \E q \in Procs \ {p} :
                            /\ proc[q].pc \in {"gather", "call", "sleep", "save"}
                            /\ proc[q].target_date = proc[p].target_date])
  /\ UNCHANGED <<task_vars, meter>>
  /\ UNCHANGED <<env_key, settings_key, calls>>
  /\ UNCHANGED <<today, users, override_vars, scheduler_vars>>

\* the query raises DatabaseError
SavePlanFails(p) ==
  /\ proc[p].pc = "save"
  /\ Set(p, [proc[p] EXCEPT !.pc = "done", !.outcome = "database_error"])
  /\ UNCHANGED <<task_vars, meter>>
  /\ UNCHANGED <<env_key, settings_key, daily_plans, clock, calls>>
  /\ UNCHANGED <<today, users, override_vars, scheduler_vars>>

\* the caller has the outcome; the handler is free for its next invocation
Finish(p) ==
  /\ proc[p].pc = "done"
  /\ Set(p, Idle)
  /\ UNCHANGED <<task_vars, meter>>
  /\ UNCHANGED <<env_key, settings_key, daily_plans, clock, calls>>
  /\ UNCHANGED <<today, users, override_vars, scheduler_vars>>

Next ==
  \/ \E d \in TargetDates : generate_plan_route(d)
  \/ nightly_planning_job(NightlyTargetDate)
  \/ \E p \in Procs : GatherContext(p)
  \/ \E p \in Procs : GatherContextFails(p)
  \/ \E p \in Procs : \E r \in Responses :
        ProviderReturns(p, r) /\ UNCHANGED meter
  \/ \E p \in Procs : \E e \in ErrorTexts :
        ProviderFails(p, e) /\ UNCHANGED meter
  \/ \E p \in Procs : Sleep(p) /\ UNCHANGED meter
  \/ \E p \in Procs : save_plan(p)
  \/ \E p \in Procs : SavePlanFails(p)
  \/ \E p \in Procs : Finish(p)

Spec == Init /\ [][Next]_vars

(***************************************************************************)
(* The plan contract of the specification (sections 4.2 and 6), stated on  *)
(* a stored or returned plan.                                              *)
(***************************************************************************)
IsText(v) == v.t = "str"

\* `YYYY-MM-DD`: four digits, two digits and two digits, joined by dashes
MatchesYearMonthDay(s) ==
  /\ Len(s) = 10
  /\ \A i \in 1..10 : IF i \in {5, 8} THEN s[i] = "-" ELSE s[i] \in Digits

SchemaTimeBlock(b) ==
  /\ b.t = "obj"
  /\ DOMAIN b.o = {"start_time", "end_time", "task_id", "activity",
                   "priority", "reasoning"}
  /\ IsText(b.o.start_time) /\ TimePattern(b.o.start_time.s)
  /\ IsText(b.o.end_time) /\ TimePattern(b.o.end_time.s)
  /\ \/ b.o.task_id = JNull
     \/ IsText(b.o.task_id) /\ Len(b.o.task_id.s) = 36
  /\ IsText(b.o.activity) /\ b.o.activity.s # << >>
  /\ b.o.priority.t = "int" /\ b.o.priority.n \in 1..5
  /\ IsText(b.o.reasoning) /\ b.o.reasoning.s # << >>

SchemaGoalProgress(g) ==
  /\ g.t = "obj"
  /\ DOMAIN g.o = {"goal_id", "status", "action_needed"}
  /\ IsText(g.o.goal_id) /\ Len(g.o.goal_id.s) = 36
  /\ IsText(g.o.status) /\ g.o.status.s \in {on_track, at_risk, blocked}
  /\ IsText(g.o.action_needed)

PlanSatisfiesSchema(plan) ==
  /\ plan.t = "obj"
  /\ DOMAIN plan.o = {"date", "reasoning", "priority_analysis", "time_blocks",
                      "social_time_allocation", "goal_progress_assessment",
                      "warnings"}
  /\ IsText(plan.o.date) /\ MatchesYearMonthDay(plan.o.date.s)
  /\ IsText(plan.o.reasoning) /\ Len(plan.o.reasoning.s) >= 10
  /\ IsText(plan.o.priority_analysis) /\ Len(plan.o.priority_analysis.s) >= 10
  /\ plan.o.time_blocks.t = "list"
  /\ \A i \in DOMAIN plan.o.time_blocks.l :
       SchemaTimeBlock(plan.o.time_blocks.l[i])
  /\ plan.o.social_time_allocation.t = "obj"
  /\ plan.o.social_time_allocation.o.total_minutes.t = "int"
  /\ plan.o.social_time_allocation.o.total_minutes.n >= 0
  /\ IsText(plan.o.social_time_allocation.o.reasoning)
  /\ plan.o.social_time_allocation.o.reasoning.s # << >>
  /\ plan.o.goal_progress_assessment.t = "list"
  /\ \A i \in DOMAIN plan.o.goal_progress_assessment.l :
       SchemaGoalProgress(plan.o.goal_progress_assessment.l[i])
  /\ plan.o.warnings.t = "list"
  /\ \A i \in DOMAIN plan.o.warnings.l : IsText(plan.o.warnings.l[i])

\* PlanSatisfiesSchema of the plan held under each name, tabulated
SatisfiesSchema ==
  [name \in Responses |->
     Validated[name].plan # NoPlan /\ PlanSatisfiesSchema(Validated[name].plan)]

InFlight(p) == proc[p].pc \in {"gather", "call", "sleep", "save"}

RowsOf(rows, date) == {r \in rows : r.user_id = User /\ r.plan_date = date}

(***************************************************************************)
(* C1.  Once its context is gathered, and whatever the provider answers,   *)
(* an invocation of generate_daily_plan ends in one of two ways: it        *)
(* returns a plan that satisfies the whole schema, or it fails with the    *)
(* aggregated generation error after exactly 3 orchestrator attempts.      *)
(* Nothing that did not pass validation is ever returned.  (An invocation  *)
(* in which a call of the store raised ends with the store's error and     *)
(* returns nothing; one rejected for a missing credential never reaches    *)
(* generate_daily_plan.)                                                   *)
(***************************************************************************)
C1_ValidPlanOrAggregatedError ==
  \A p \in Procs :
    /\ proc[p].result # NoPlanName =>
         /\ proc[p].outcome = "returned"
         /\ SatisfiesSchema[proc[p].result]
    /\ (proc[p].pc = "done"
          /\ proc[p].outcome \notin {"database_error", "not_configured"}) =>
         \/ /\ proc[p].outcome = "returned"
            /\ proc[p].result # NoPlanName
            /\ SatisfiesSchema[proc[p].result]
         \/ /\ proc[p].outcome = "generation_failed"
            /\ proc[p].result = NoPlanName
            /\ proc[p].attempts_made = 3

\* one invocation has failed after its third attempt while the other has
\* returned a plan that took it three attempts
C1_Witness ==
  /\ proc["request"].pc = "done"
  /\ proc["request"].outcome = "generation_failed"
  /\ proc["request"].attempts_made = 3
  /\ proc["nightly"].pc = "done"
  /\ proc["nightly"].outcome = "returned"
  /\ proc["nightly"].attempts_made = 3

(***************************************************************************)
(* C2.  The daily_plans table changes only in a step in which an           *)
(* invocation saves the plan that passed validation, and the row written   *)
(* holds exactly that plan; an invocation that fails wrote nothing, and    *)
(* the step in which it fails leaves the table as it was.                  *)
(***************************************************************************)
C2_WriteOnlyValidated ==
  [][ /\ daily_plans' # daily_plans =>
           \E p \in Procs :
             /\ proc[p].pc = "save"
             /\ proc'[p].outcome = "returned"
             /\ proc[p].plan # NoPlanName
             /\ Validated[proc[p].plan].ok
             /\ \E r \in daily_plans' :
                  /\ r.plan_date = DateOf[proc[p].target_date]
                  /\ r.plan_json = proc[p].plan
                  /\ daily_plans' \ {r} =
                       daily_plans \ RowsOf(daily_plans, r.plan_date)
      /\ \A p \in Procs :
           (proc'[p].pc = "done" /\ proc'[p].outcome # "returned") =>
             /\ proc'[p].writes = 0
             /\ proc[p].pc # "done" => daily_plans' = daily_plans
    ]_vars

\* every attempt of an invocation has failed, the last one by a provider
\* error, while the table holds a row written earlier
C2_Witness ==
  \E p \in Procs :
    /\ proc[p].pc = "done"
    /\ proc[p].outcome = "generation_failed"
    /\ proc[p].gen_last_error = "Plan generation failed"
    /\ proc[p].writes = 0
    /\ daily_plans # {}

(***************************************************************************)
(* C3.  The daily_plans table never holds two rows for one                 *)
(* (user, plan_date).                                                      *)
(***************************************************************************)
C3_OneRowPerDate ==
  \A r1, r2 \in daily_plans :
    (r1.user_id = r2.user_id /\ r1.plan_date = r2.plan_date) => r1 = r2

\* a date has been regenerated: its row was modified after it was inserted
C3_Witness ==
  \E r \in daily_plans :
    /\ r.modified_at > r.generated_at
    /\ Cardinality(daily_plans) = 1

(***************************************************************************)
(* C4.  When an invocation saves its plan for a date that already has a    *)
(* row, the table afterwards holds exactly one row for that date, and its  *)
(* payload and reasoning are those of the invocation that saved last.      *)
(***************************************************************************)
C4_SecondCallWins ==
  [][ \A p \in Procs :
        (/\ proc[p].pc = "save"
         /\ proc'[p].outcome = "returned"
         /\ RowsOf(daily_plans, DateOf[proc[p].target_date]) # {}) =>
          LET rows == RowsOf(daily_plans', DateOf[proc[p].target_date])
          IN /\ Cardinality(rows) = 1
             /\ \A r \in rows :
                  /\ r.plan_json = proc[p].plan
                  /\ r.reasoning = ReasoningOf[proc[p].plan]
    ]_vars

\* the second successful invocation for a date has just returned, and the
\* row inserted by the first holds the plan and the reasoning of the second
C4_Witness ==
  \E p \in Procs : \E r \in daily_plans :
    /\ proc[p].pc = "done"
    /\ proc[p].outcome = "returned"
    /\ r.plan_date = DateOf[proc[p].target_date]
    /\ r.modified_at = clock - 1
    /\ r.modified_at > r.generated_at
    /\ r.plan_json = proc[p].result
    /\ r.reasoning = ReasoningOf[proc[p].result]

(***************************************************************************)
(* C5.  When the two executions have both saved a plan for the same date,  *)
(* however their steps interleaved, the table holds exactly one row for    *)
(* that date, and its payload and its reasoning are both those of one and  *)
(* the same execution.                                                     *)
(***************************************************************************)
C5_RaceLeavesOneConsistentRow ==
  (/\ \A p \in Procs : proc[p].pc = "done" /\ proc[p].outcome = "returned"
   /\ proc["request"].target_date = proc["nightly"].target_date) =>
    LET rows == RowsOf(daily_plans, DateOf[proc["request"].target_date])
    IN /\ Cardinality(rows) = 1
       /\ \A r \in rows :
            \E p \in Procs :
              /\ r.plan_json = proc[p].result
              /\ r.reasoning = ReasoningOf[proc[p].result]

\* both executions were in flight for the same date when the first of them
\* saved, and they saved different plans
C5_Witness ==
  /\ \A p \in Procs : proc[p].pc = "done" /\ proc[p].outcome = "returned"
  /\ proc["request"].target_date = proc["nightly"].target_date
  /\ proc["request"].result # proc["nightly"].result
  /\ \E p \in Procs : proc[p].raced

(***************************************************************************)
(* The events of one invocation of complete.                               *)
(***************************************************************************)
CallsIn(t) == Cardinality({i \in DOMAIN t : t[i].ev = "call"})

SleepsUpTo(t, i) == Cardinality({j \in 1..i : t[j].ev = "sleep"})

\* an error text outside the retryable vocabulary of the specification
NonRetryableText(e) == e = ErrInvalidRequest

NotConfiguredText == <<"n", "o", "t", " ", "c", "o", "n", "f", "i", "g", "u",
                       "r", "e", "d">>

(***************************************************************************)
(* C6.  One invocation of complete makes at most 3 provider calls; a call  *)
(* is followed by another only if it failed with an error classified       *)
(* retryable; a call that succeeded is the last event of the invocation:   *)
(* complete neither sleeps, nor calls again, nor raises after it.          *)
(***************************************************************************)
C6_AtMostThreeCalls ==
  \A p \in Procs :
    LET t == proc[p].trace
    IN /\ CallsIn(t) <= 3
       /\ \A i \in DOMAIN t :
            (t[i].ev = "call" /\ \E j \in DOMAIN t : j > i /\ t[j].ev = "call")
              => (~t[i].ok /\ t[i].retryable)
       /\ \A i \in DOMAIN t :
            (t[i].ev = "call" /\ t[i].ok) =>
              /\ i = Len(t)
              /\ proc[p].pc # "sleep"
              /\ ~proc[p].complete_raised.raised

\* two retryable failures, then a third call, which succeeds
C6_Witness ==
  \E p \in Procs :
    LET t == proc[p].trace
    IN /\ CallsIn(t) = 3
       /\ t[1].retryable /\ t[3].retryable
       /\ t[Len(t)].ok

(***************************************************************************)
(* C7.  The k-th sleep of an invocation of complete, the one before        *)
(* attempt n = k + 1, lasts 1 * 2^(n-2) seconds; a sleep comes right after *)
(* a failed attempt and is followed by the next attempt, so none comes     *)
(* before the first attempt or after the last.  After two failures and a   *)
(* success the sleeps were 1 and 2 seconds and complete returned the       *)
(* content of the third call.                                              *)
(***************************************************************************)
C7_BackoffBetweenAttempts ==
  \A p \in Procs :
    LET t == proc[p].trace
    IN /\ \A i \in DOMAIN t :
            t[i].ev = "sleep" =>
              /\ i > 1 /\ t[i - 1].ev = "call" /\ ~t[i - 1].ok
              /\ t[i].delay = 1 * 2 ^ ((SleepsUpTo(t, i) + 1) - 2)
              /\ i < Len(t) => t[i + 1].ev = "call"
              /\ i = Len(t) =>
                   /\ proc[p].pc = "call"
                   /\ proc[p].llm_attempt = SleepsUpTo(t, i)
                   /\ proc[p].llm_attempt < 3
       /\ proc[p].pc = "sleep" =>
            /\ t # << >> /\ t[Len(t)].ev = "call" /\ ~t[Len(t)].ok
            /\ proc[p].delay = 1 * 2 ^ SleepsUpTo(t, Len(t))
            /\ CallsIn(t) < 3
       /\ (Len(t) = 5 /\ t[5].ok) =>
            /\ t[2].ev = "sleep" /\ t[2].delay = 1
            /\ t[4].ev = "sleep" /\ t[4].delay = 2
            /\ Validated[t[5].content].ok => proc[p].plan = t[5].content

\* two rate-limit failures, sleeps of 1 and 2 seconds between the attempts,
\* and the third attempt's plan in the orchestrator's hands
C7_Witness ==
  \E p \in Procs :
    /\ proc[p].trace = <<CallEvent(FALSE, "", ErrRateLimit, TRUE),
                         SleepEvent(1),
                         CallEvent(FALSE, "", ErrRateLimit, TRUE),
                         SleepEvent(2),
                         CallEvent(TRUE, "planB", NoText, FALSE)>>
    /\ proc[p].plan = "planB"
    /\ proc[p].pc = "save"

(***************************************************************************)
(* C8.  A provider call that failed with a non-retryable error is the last *)
(* event of its invocation of complete: no sleep and no further call       *)
(* follows it, and complete has raised, carrying that error.  When it was  *)
(* the first attempt, the invocation made one call and slept not at all.   *)
(***************************************************************************)
C8_NonRetryableAborts ==
  \A p \in Procs :
    LET t == proc[p].trace
    IN \A i \in DOMAIN t :
         (t[i].ev = "call" /\ ~t[i].ok /\ NonRetryableText(t[i].error)) =>
           /\ i = Len(t)
           /\ proc[p].pc \notin {"sleep", "save"}
           /\ proc[p].delay = 0
           /\ proc[p].complete_raised.raised
           /\ proc[p].complete_raised.original_error = t[i].error

\* the first attempt failed with a non-retryable error and complete raised
C8_Witness ==
  \E p \in Procs :
    /\ proc[p].trace = <<CallEvent(FALSE, "", ErrInvalidRequest, FALSE)>>
    /\ proc[p].complete_raised.raised

(***************************************************************************)
(* C9.  The error complete raises carries the error of the last attempt    *)
(* made and the number of attempts made, in its retry_count or in its      *)
(* message.                                                                *)
(***************************************************************************)
C9_ErrorCarriesAttemptCount ==
  \A p \in Procs :
    LET t == proc[p].trace
        e == proc[p].complete_raised
    IN e.raised =>
         /\ t # << >>
         /\ e.original_error = t[Len(t)].error
         /\ \/ e.retry_count = CallsIn(t)
            \/ e.message_attempts = CallsIn(t)

(***************************************************************************)
(* C10.  While the credential is missing from the environment or from the  *)
(* settings, a request to generate a plan never gets past the handler's    *)
(* entry: each one ends with an error whose message says "not configured", *)
(* having made no provider call, begun no attempt and written no row.      *)
(***************************************************************************)
C10_NotConfiguredFailsFast ==
  (~env_key \/ ~settings_key) =>
    /\ proc["request"].pc \in {"idle", "done"}
    /\ proc["request"].pc = "done" =>
         /\ proc["request"].outcome = "not_configured"
         /\ Contains(lower(proc["request"].error), NotConfiguredText)
         /\ proc["request"].trace = << >>
         /\ proc["request"].attempts_made = 0
         /\ proc["request"].writes = 0
         /\ proc["request"].result = NoPlanName

\* with no credential anywhere, a second request has ended as the first did
C10_Witness ==
  /\ ~env_key /\ ~settings_key
  /\ calls = 2
  /\ proc["request"].pc = "done"
  /\ proc["request"].outcome = "not_configured"
  /\ daily_plans = {}

(***************************************************************************)
(* The weekly override quota: get_week_number, check_weekly_overrides,     *)
(* log_override and the override_plan route.                               *)
(***************************************************************************)
\* the days the override requests are made on: from Saturday 2024-12-28
FirstOverrideDay == toordinal(2024, 12, 28)

MaxOverrideDays == 2

MaxOverrideCalls == 6

OverrideDays == FirstOverrideDay..(FirstOverrideDay + MaxOverrideDays)

\* PlanningEngine.get_week_number
get_week_number(date) ==
  LET day_num0 == weekday(date) + 1
      day_num == IF day_num0 = 7 THEN 0 ELSE day_num0
      d == date + (4 - day_num)
      year_start == toordinal(YearOf(d), 1, 1)
      days_diff == (d - year_start) + 1
  IN (days_diff + 6) \div 7

\* get_week_number(now), tabulated over the days of the model
WeekNumberOf == [o \in OverrideDays |-> get_week_number(o)]

\* the '5' of os.environ.get('MAX_WEEKLY_OVERRIDES', '5')
DefaultMaxWeeklyOverrides == <<"5">>

\* the values MAX_WEEKLY_OVERRIDES has in the environment
MaxOverridesSettings == {NoText, <<"2">>}

\* int(os.environ.get('MAX_WEEKLY_OVERRIDES', '5'))
max_overrides(env) ==
  IF env = NoText THEN ParseInt(DefaultMaxWeeklyOverrides) ELSE ParseInt(env)

Max(a, b) == IF a >= b THEN a ELSE b

\* check_weekly_overrides with remaining = max_overrides - count
check_weekly_overrides_NoFloor(log, user_id, now, env) ==
  LET week_number == WeekNumberOf[now]
      count == Cardinality({e \in log : e.user_id = user_id
                                         /\ e.week_number = week_number})
  IN [count |-> count,
      remaining |-> max_overrides(env) - count,
      limit |-> max_overrides(env),
      canOverride |-> count <= max_overrides(env)]

\* PlanningEngine.check_weekly_overrides
check_weekly_overrides(log, user_id, now, env) ==
  LET week_number == WeekNumberOf[now]
      count == Cardinality({e \in log : e.user_id = user_id
                                         /\ e.week_number = week_number})
  IN [count |-> count,
      remaining |-> Max(0, max_overrides(env) - count),
      limit |-> max_overrides(env),
      canOverride |-> count < max_overrides(env)]

PlanId == "plan1"

\* the row log_override inserts
OverrideRow(log, user_id, plan_id, override_type, reason, now) ==
  [id |-> Cardinality(log) + 1,
   user_id |-> user_id,
   plan_id |-> plan_id,
   override_type |-> override_type,
   override_reason |-> reason,
   override_timestamp |-> now,
   week_number |-> WeekNumberOf[now]]

\* log_override that consults the quota
log_override_Enforcing(log, user_id, plan_id, override_type, reason, now) ==
  IF check_weekly_overrides(log, user_id, now, NoText).canOverride
  THEN log \cup {OverrideRow(log, user_id, plan_id, override_type, reason, now)}
  ELSE log

\* PlanningEngine.log_override
log_override(log, user_id, plan_id, override_type, reason, now) ==
  log \cup {OverrideRow(log, user_id, plan_id, override_type, reason, now)}

SetO(o, c) == oproc' = [oproc EXCEPT ![o] = c]

\* the route that goes on to log whatever the check said
LimitReached_Never(override_check) == FALSE

\* `if not override_check['canOverride']`
LimitReached(override_check) == ~override_check.canOverride

\* PUT /override-plan/{plan_id}: the handler up to its first await
override_plan(o) ==
  /\ oproc[o].pc = "idle"
  /\ users # {}
  /\ override_calls < MaxOverrideCalls
  /\ override_calls' = override_calls + 1
  /\ IF ClientKeyMissing(settings_key)
     THEN SetO(o, [OIdle EXCEPT !.pc = "done", !.outcome = "not_configured"])
     ELSE SetO(o, [OIdle EXCEPT !.pc = "check"])
  /\ UNCHANGED <<task_vars, meter>>
  /\ UNCHANGED <<env_key, settings_key, daily_plans, clock, calls, proc>>
  /\ UNCHANGED <<today, users, env_max_overrides, override_log, scheduler_vars>>

\* override_check = await planner.check_weekly_overrides(user['id']) and
\* the raise of OverrideLimitError
OverrideCheck(o) ==
  /\ oproc[o].pc = "check"
  /\ LET override_check ==
           check_weekly_overrides(override_log, User, today, env_max_overrides)
     IN IF LimitReached(override_check)
        THEN SetO(o, [oproc[o] EXCEPT !.pc = "done",
                                      !.override_check = override_check,
                                      !.outcome = "override_limit",
                                      !.override_status = override_check])
        ELSE SetO(o, [oproc[o] EXCEPT !.pc = "log",
                                      !.override_check = override_check])
  /\ UNCHANGED <<task_vars, meter>>
  /\ UNCHANGED <<env_key, settings_key, daily_plans, clock, calls, proc>>
  /\ UNCHANGED <<today, users, env_max_overrides, override_log, override_calls,
                 scheduler_vars>>

\* await planner.log_override(user['id'], plan_id, override_type, reason)
OverrideLog(o) ==
  /\ oproc[o].pc = "log"
  /\ override_log' = log_override(override_log, User, PlanId, "manual", "",
                                  today)
  /\ SetO(o, [oproc[o] EXCEPT
                !.pc = "recheck",
                !.inserted = @ + Cardinality(override_log' \ override_log)])
  /\ UNCHANGED <<task_vars, meter>>
  /\ UNCHANGED <<env_key, settings_key, daily_plans, clock, calls, proc>>
  /\ UNCHANGED <<today, users, env_max_overrides, override_calls,
                 scheduler_vars>>

\* updated_overrides = await planner.check_weekly_overrides(user['id']) and
\* the return
OverrideRecheck(o) ==
  /\ oproc[o].pc = "recheck"
  /\ SetO(o, [oproc[o] EXCEPT
                !.pc = "done",
                !.outcome = "logged",
                !.updated_overrides =
                   check_weekly_overrides(override_log, User, today,
                                          env_max_overrides)])
  /\ UNCHANGED <<task_vars, meter>>
  /\ UNCHANGED <<env_key, settings_key, daily_plans, clock, calls, proc>>
  /\ UNCHANGED <<today, users, env_max_overrides, override_log, override_calls,
                 scheduler_vars>>

\* the response is sent; the handler is free for its next request
OverrideFinish(o) ==
  /\ oproc[o].pc = "done"
  /\ SetO(o, OIdle)
  /\ UNCHANGED <<task_vars, meter>>
  /\ UNCHANGED <<env_key, settings_key, daily_plans, clock, calls, proc>>
  /\ UNCHANGED <<today, users, env_max_overrides, override_log, override_calls,
                 scheduler_vars>>

\* midnight: datetime.now() is a day later
OverrideDayPasses ==
  /\ today < FirstOverrideDay + MaxOverrideDays
  /\ today' = today + 1
  /\ UNCHANGED <<task_vars, meter>>
  /\ UNCHANGED <<env_key, settings_key, daily_plans, clock, calls, proc>>
  /\ UNCHANGED <<users, override_vars, scheduler_vars>>

\* a day of week 52 of the year before FirstOverrideDay's: 2023-12-30
EarlierYearDay == toordinal(2023, 12, 30)

\* the row log_override wrote on that day
EarlierOverride ==
  [id |-> 1,
   user_id |-> User,
   plan_id |-> PlanId,
   override_type |-> "manual",
   override_reason |-> "",
   override_timestamp |-> EarlierYearDay,
   week_number |-> get_week_number(EarlierYearDay)]

InitOverride ==
  /\ env_key \in BOOLEAN
  /\ settings_key \in BOOLEAN
  /\ daily_plans = {}
  /\ clock = 1
  /\ calls = 0
  /\ proc = [p \in Procs |-> Idle]
  /\ today = FirstOverrideDay
  /\ users = {User}
  /\ env_max_overrides \in MaxOverridesSettings
  /\ override_log \in {{}, {EarlierOverride}}
  /\ override_calls = 0
  /\ oproc = [o \in OProcs |-> OIdle]
  /\ scheduler = NoScheduler
  /\ job = JobIdle
  /\ tasks = {}
  /\ calendar_events = {}
  /\ reschedules = 0
  /\ task_updates = << >>
  /\ rproc = RIdle
  /\ meter = NoMeter

NextOverride ==
  \/ \E o \in OProcs : override_plan(o)
  \/ \E o \in OProcs : OverrideCheck(o)
  \/ \E o \in OProcs : OverrideLog(o)
  \/ \E o \in OProcs : OverrideRecheck(o)
  \/ \E o \in OProcs : OverrideFinish(o)
  \/ OverrideDayPasses

SpecOverride == InitOverride /\ [][NextOverride]_vars

(***************************************************************************)
(* The nightly trigger: start_planning_scheduler and                       *)
(* _nightly_planning_job.                                                  *)
(***************************************************************************)
MaxStarts == 2

\* scheduler.add_job(..., id=job_id, replace_existing=True)
add_job(jobs, job_id) ==
  Append(SelectSeq(jobs, LAMBDA j : j # job_id), job_id)

\* start_planning_scheduler without its guard
AlreadyStarted_Never(s) == FALSE

\* `if self.scheduler_started`
AlreadyStarted(s) == s.scheduler_started

\* the module's start_planning_scheduler and the method it awaits, which
\* has no await of its own
start_planning_scheduler ==
  /\ scheduler.starts < MaxStarts
  /\ IF ~scheduler.instance /\ ClientKeyMissing(settings_key)
     THEN \* PlanningScheduler() raises: _scheduler_instance stays None
          scheduler' = [scheduler EXCEPT !.starts = @ + 1,
                                         !.last_start = "not_configured"]
     ELSE LET s == [scheduler EXCEPT !.instance = TRUE, !.starts = @ + 1]
          IN IF AlreadyStarted(s)
             THEN scheduler' = [s EXCEPT !.last_start = "already_running"]
             ELSE IF s.running
             THEN \* scheduler.start() raises SchedulerAlreadyRunningError
                  scheduler' =
                    [s EXCEPT !.jobs = add_job(@, "nightly_planning"),
                              !.last_start = "raised"]
             ELSE scheduler' =
                    [s EXCEPT !.jobs = add_job(@, "nightly_planning"),
                              !.running = TRUE,
                              !.scheduler_started = TRUE,
                              !.last_start = "started"]
  /\ UNCHANGED <<task_vars, meter>>
  /\ UNCHANGED <<env_key, settings_key, daily_plans, clock, calls, proc>>
  /\ UNCHANGED <<today, users, override_vars, job>>

\* POST /api/init provisions the user
create_user ==
  /\ users = {}
  /\ users' = {User}
  /\ UNCHANGED <<task_vars, meter>>
  /\ UNCHANGED <<env_key, settings_key, daily_plans, clock, calls, proc>>
  /\ UNCHANGED <<today, override_vars, scheduler_vars>>

\* CronTrigger(hour=planning_hour, minute=0): the next day's planning hour
\* comes, and the job fires if the scheduler runs and holds it; a run of
\* the job ends within its day
PlanningHourComes ==
  /\ today < FirstSchedulerDay + MaxSchedulerDays
  /\ job.pc = "idle"
  /\ today' = today + 1
  /\ IF scheduler.running
        /\ \E i \in DOMAIN scheduler.jobs : scheduler.jobs[i] = "nightly_planning"
     THEN job' = [JobIdle EXCEPT !.pc = "get_user",
                                 !.fired_on = today',
                                 !.failures = job.failures]
     ELSE job' = job
  /\ UNCHANGED <<task_vars, meter>>
  /\ UNCHANGED <<env_key, settings_key, daily_plans, clock, calls, proc>>
  /\ UNCHANGED <<users, override_vars, scheduler>>

\* the job's `except Exception` catching only LLMError
Caught_OnlyLLMError(outcome) == outcome = "generation_failed_llm"

\* `except Exception as error`: the errors the job's try block can raise
\* are DatabaseError, ValueError and Exception, all of them Exceptions
Caught(outcome) ==
  outcome \in {"database_error", "value_error", "generation_failed"}

\* how a firing whose try block raised ends
JobFailed(j, outcome) ==
  [j EXCEPT !.pc = "idle",
            !.result = IF Caught(outcome) THEN "logged_error" ELSE "propagated",
            !.failures = @ + 1]

\* user = await get_user(): no user, or the call of generate_daily_plan
\* for tomorrow up to its first await
JobGetUser ==
  /\ job.pc = "get_user"
  /\ IF users = {}
     THEN /\ job' = [job EXCEPT !.pc = "idle", !.result = "skipped"]
          /\ proc' = proc
     ELSE LET target_date == strftime(Tomorrow(today))
          IN /\ job' = [job EXCEPT !.pc = "planning",
                                   !.invocations = @ + 1,
                                   !.target_date = target_date]
             /\ Set("nightly", generate_daily_plan(Idle, target_date))
  /\ UNCHANGED <<task_vars, meter>>
  /\ UNCHANGED <<env_key, settings_key, daily_plans, clock, calls>>
  /\ UNCHANGED <<today, users, override_vars, scheduler>>

\* get_user's query raises DatabaseError
JobGetUserFails ==
  /\ job.pc = "get_user"
  /\ job' = JobFailed(job, "database_error")
  /\ UNCHANGED <<task_vars, meter>>
  /\ UNCHANGED <<env_key, settings_key, daily_plans, clock, calls, proc>>
  /\ UNCHANGED <<today, users, override_vars, scheduler>>

\* generate_daily_plan has returned or raised: the end of the job
JobEnds ==
  /\ job.pc = "planning"
  /\ proc["nightly"].pc = "done"
  /\ job' = IF proc["nightly"].outcome = "returned"
            THEN [job EXCEPT !.pc = "idle", !.result = "completed"]
            ELSE JobFailed(job, proc["nightly"].outcome)
  /\ Set("nightly", Idle)
  /\ UNCHANGED <<task_vars, meter>>
  /\ UNCHANGED <<env_key, settings_key, daily_plans, clock, calls>>
  /\ UNCHANGED <<today, users, override_vars, scheduler>>

InitScheduler ==
  /\ settings_key \in BOOLEAN
  /\ env_key = settings_key
  /\ daily_plans = {}
  /\ clock = 1
  /\ calls = 0
  /\ proc = [p \in Procs |-> Idle]
  /\ today = FirstSchedulerDay
  /\ users \in {{}, {User}}
  /\ env_max_overrides = NoText
  /\ override_log = {}
  /\ override_calls = 0
  /\ oproc = [o \in OProcs |-> OIdle]
  /\ scheduler = NoScheduler
  /\ job = JobIdle
  /\ tasks = {}
  /\ calendar_events = {}
  /\ reschedules = 0
  /\ task_updates = << >>
  /\ rproc = RIdle
  /\ meter = NoMeter

NextScheduler ==
  \/ start_planning_scheduler
  \/ create_user
  \/ PlanningHourComes
  \/ JobGetUser
  \/ JobGetUserFails
  \/ JobEnds
  \/ GatherContext("nightly")
  \/ GatherContextFails("nightly")
  \/ \E r \in Responses : ProviderReturns("nightly", r) /\ UNCHANGED meter
  \/ \E e \in ErrorTexts : ProviderFails("nightly", e) /\ UNCHANGED meter
  \/ Sleep("nightly") /\ UNCHANGED meter
  \/ save_plan("nightly")
  \/ SavePlanFails("nightly")

SpecScheduler == InitScheduler /\ [][NextScheduler]_vars

(***************************************************************************)
(* ISO weeks, as the specification words them.                             *)
(***************************************************************************)
\* the Monday that begins the Monday-to-Sunday week of day o
MondayOf(o) == o - weekday(o)

ThursdayOf(o) == MondayOf(o) + 3

\* ceil((days from Jan 1 of the Thursday's year to the Thursday + 1) / 7)
IsoWeekNumber(o) ==
  LET t == ThursdayOf(o)
      n == (t - toordinal(YearOf(t), 1, 1)) + 1
  IN CHOOSE w \in 1..53 : 7 * (w - 1) < n /\ n <= 7 * w

\* the rows of the log that count toward the quota at this moment
InCurrentBucket ==
  {e \in override_log : e.user_id = User
                        /\ e.week_number = WeekNumberOf[today]}

\* the configured cap: MAX_WEEKLY_OVERRIDES, 5 when it is not set
ConfiguredCap ==
  IF env_max_overrides = NoText THEN 5 ELSE ParseInt(env_max_overrides)

\* the status the specification prescribes for count k under cap L
StatusFor(k, L) ==
  [count |-> k,
   remaining |-> IF L - k > 0 THEN L - k ELSE 0,
   limit |-> L,
   canOverride |-> k < L]

(***************************************************************************)
(* C11.  On every day, get_week_number of that day is the day's ISO week   *)
(* number.                                                                 *)
(***************************************************************************)
C11_WeekNumberIsIsoWeek ==
  WeekNumberOf[today] = IsoWeekNumber(today)

(***************************************************************************)
(* C12.  Two overrides logged on days of the same Monday-to-Sunday week    *)
(* carry the same week number, and two logged in consecutive weeks carry   *)
(* different week numbers.                                                 *)
(***************************************************************************)
C12_SameWeekSameBucket ==
  \A e1, e2 \in override_log :
    /\ MondayOf(e1.override_timestamp) = MondayOf(e2.override_timestamp)
         => e1.week_number = e2.week_number
    /\ MondayOf(e2.override_timestamp) = MondayOf(e1.override_timestamp) + 7
         => e1.week_number # e2.week_number

(***************************************************************************)
(* C13.  Whenever check_weekly_overrides returns, in the route's check or  *)
(* in its re-check, with k rows stored under the current week number and   *)
(* cap L, the status it returns is count = k, limit = L,                   *)
(* remaining = max(0, L - k), can_override = (k < L); with L = 5 and       *)
(* k = 5 that is can_override = false and remaining = 0.                   *)
(***************************************************************************)
C13_StatusFromCount ==
  [][ \A o \in OProcs :
        LET k == Cardinality(InCurrentBucket)
            L == ConfiguredCap
        IN /\ (oproc[o].pc = "check" /\ oproc'[o].pc # "check") =>
                /\ oproc'[o].override_check = StatusFor(k, L)
                /\ (L = 5 /\ k = 5) =>
                     /\ ~oproc'[o].override_check.canOverride
                     /\ oproc'[o].override_check.remaining = 0
           /\ (oproc[o].pc = "recheck" /\ oproc'[o].pc # "recheck") =>
                oproc'[o].updated_overrides = StatusFor(k, L)
    ]_vars

\* under the default cap, the check found the five overrides of the week
C13_Witness ==
  \E o \in OProcs :
    /\ env_max_overrides = NoText
    /\ oproc[o].pc = "done"
    /\ oproc[o].override_check =
         [count |-> 5, remaining |-> 0, limit |-> 5, canOverride |-> FALSE]
    /\ Cardinality(InCurrentBucket) = 5

(***************************************************************************)
(* C14.  When the route's check finds that the count of the current week   *)
(* has reached the cap, the request ends there with OverrideLimitError,    *)
(* which carries the status (the count, remaining 0, the cap,              *)
(* can_override false); that step leaves the override log as it was, and   *)
(* a request that ended so has inserted no row.  (A request made while     *)
(* the LLM credential is missing ends before its check, in the             *)
(* construction of the engine.)                                            *)
(***************************************************************************)
C14_QuotaExceededRejected ==
  [][ \A o \in OProcs :
        LET k == Cardinality(InCurrentBucket)
            L == ConfiguredCap
        IN /\ (oproc[o].pc = "check" /\ oproc'[o].pc # "check" /\ k >= L) =>
                /\ oproc'[o].pc = "done"
                /\ oproc'[o].outcome = "override_limit"
                /\ oproc'[o].override_status.count = k
                /\ oproc'[o].override_status.remaining = 0
                /\ oproc'[o].override_status.limit = L
                /\ ~oproc'[o].override_status.canOverride
                /\ override_log' = override_log
           /\ oproc'[o].outcome = "override_limit" => oproc'[o].inserted = 0
    ]_vars

\* a request was rejected when the log held as many rows as the cap allows
C14_Witness ==
  \E o \in OProcs :
    /\ oproc[o].pc = "done"
    /\ oproc[o].outcome = "override_limit"
    /\ oproc[o].override_status.count = ConfiguredCap
    /\ Cardinality(override_log) = ConfiguredCap
    /\ oproc[o].inserted = 0

(***************************************************************************)
(* C15.  Every call of log_override, whatever the count at that moment,    *)
(* adds exactly one row, stamped with the week number of the day of the    *)
(* call; and no step removes a row of the log or changes one.              *)
(***************************************************************************)
C15_LogDoesNotEnforce ==
  [][ /\ override_log \subseteq override_log'
      /\ \A o \in OProcs :
           (oproc[o].pc = "log" /\ oproc'[o].pc # "log") =>
             \E e \in override_log' \ override_log :
               /\ override_log' = override_log \cup {e}
               /\ e.week_number = WeekNumberOf[today]
               /\ e.override_timestamp = today
               /\ e.user_id = User
    ]_vars

\* log_override has just added a row although the week's count had already
\* reached the cap: the week now holds more rows than the cap
C15_Witness ==
  \E o \in OProcs :
    /\ oproc[o].pc = "recheck"
    /\ oproc[o].inserted = 1
    /\ Cardinality(InCurrentBucket) > ConfiguredCap

(***************************************************************************)
(* The nightly trigger, as the specification words it.                     *)
(***************************************************************************)
\* the nightly planning jobs the scheduler holds
NightlyJobs(s) == {i \in DOMAIN s.jobs : s.jobs[i] = "nightly_planning"}

\* the day a 'YYYY-MM-DD' text names, 0 when it names none
DayNamedBy(text) ==
  LET d == strptime(text)
  IN IF d.ok THEN toordinal(d.year, d.month, d.day) ELSE 0

(***************************************************************************)
(* C16.  The scheduler never holds more than one nightly planning job,     *)
(* and a start made while the trigger is running changes nothing: it       *)
(* returns without adding a job, without raising, and the trigger runs on  *)
(* as before.                                                              *)
(***************************************************************************)
C16_StartIsIdempotent ==
  [][ /\ Cardinality(NightlyJobs(scheduler')) <= 1
      /\ (scheduler'.starts = scheduler.starts + 1 /\ scheduler.running) =>
           /\ scheduler' = [scheduler EXCEPT !.starts = @ + 1,
                                             !.last_start = "already_running"]
           /\ job' = job
    ]_vars

\* a second start has returned while the trigger was running
C16_Witness ==
  /\ scheduler.starts = 2
  /\ scheduler.last_start = "already_running"
  /\ scheduler.running
  /\ scheduler.jobs = <<"nightly_planning">>

(***************************************************************************)
(* C17.  A firing made while there is no user ends at the lookup: it is    *)
(* skipped (or, when the lookup itself failed, its error is logged),       *)
(* nothing is raised and generate_daily_plan is not invoked.  A firing     *)
(* whose lookup finds the user invokes generate_daily_plan, once, for the  *)
(* day after the day of the firing; and the nightly generate_daily_plan is *)
(* invoked by nothing else.                                                *)
(***************************************************************************)
C17_FiringInvokesOnceForTomorrow ==
  [][ /\ (job.pc = "get_user" /\ job'.pc # "get_user" /\ users = {}) =>
           /\ job'.pc = "idle"
           /\ job'.result \in {"skipped", "logged_error"}
           /\ job'.result = "logged_error" => job'.failures = job.failures + 1
           /\ job'.invocations = 0
           /\ proc' = proc
           /\ daily_plans' = daily_plans
      /\ (job.pc = "get_user" /\ job'.pc # "get_user" /\ users # {}) =>
           \/ job'.result = "logged_error"   \* the lookup itself failed
           \/ /\ job'.pc = "planning"
              /\ job'.invocations = 1
              /\ proc["nightly"].pc = "idle"
              /\ proc'["nightly"].pc # "idle"
              /\ proc'["nightly"].target_date = job'.target_date
              /\ DayNamedBy(job'.target_date) = today + 1
              /\ job.fired_on = today
      /\ (proc["nightly"].pc = "idle" /\ proc'["nightly"].pc # "idle") =>
           (job.pc = "get_user" /\ users # {})
      /\ job'.invocations <= 1
    ]_vars

\* the firing of 2024-12-31 has invoked generate_daily_plan for 2025-01-01
C17_Witness ==
  /\ job.pc = "planning"
  /\ job.invocations = 1
  /\ job.fired_on = toordinal(2024, 12, 31)
  /\ proc["nightly"].target_date =
       <<"2", "0", "2", "5", "-", "0", "1", "-", "0", "1">>
  /\ proc["nightly"].pc = "save"

(***************************************************************************)
(* C18.  No firing ends with its error propagated out of the job; the      *)
(* trigger, once running, stays running and keeps its job; and whenever    *)
(* the planning hour of a day comes while it runs, the job fires, however  *)
(* many earlier firings failed.                                            *)
(***************************************************************************)
C18_FailuresAreSwallowed ==
  [][ /\ job'.result # "propagated"
      /\ scheduler.running =>
           /\ scheduler'.running
           /\ NightlyJobs(scheduler') # {}
      /\ (today' = today + 1 /\ scheduler.running) =>
           /\ job'.pc = "get_user"
           /\ job'.fired_on = today'
           /\ job'.failures = job.failures
    ]_vars

\* an earlier firing ended with a logged error, and the firing of the next
\* day has invoked generate_daily_plan again
C18_Witness ==
  /\ job.failures >= 1
  /\ job.pc = "planning"
  /\ proc["nightly"].pc = "call"
  /\ proc["nightly"].attempts_made = 1
  /\ scheduler.running

(***************************************************************************)
(* C19.  A plan that generate_daily_plan returned for a target date names  *)
(* that date in its date field, and so does the payload of every row, for  *)
(* the date the row is keyed by.                                           *)
(***************************************************************************)
C19_PlanDateIsTargetDate ==
  /\ \A p \in Procs :
       (proc[p].pc = "done" /\ proc[p].outcome = "returned") =>
         PlanValue(proc[p].result).o.date.s = proc[p].target_date
  /\ \A r \in daily_plans :
       strptime(PlanValue(r.plan_json).o.date.s) = r.plan_date

(***************************************************************************)
(* C20.  When the completion returns a text that is not JSON,              *)
(* generate_plan ends there with the error "LLM returned invalid JSON"     *)
(* and yields no plan: that completion was the only one it called, and     *)
(* what follows is the orchestrator's next attempt, or its failure after   *)
(* the third.                                                              *)
(***************************************************************************)
C20_InvalidJsonRaisesOnce ==
  [][ \A p \in Procs :
        LET t == proc'[p].trace
        IN (/\ proc[p].pc = "call"
            /\ t # proc[p].trace
            /\ t[Len(t)].ok
            /\ ~ResponseText(t[Len(t)].content).json) =>
             /\ proc'[p].gen_last_error = "LLM returned invalid JSON"
             /\ proc'[p].plan = NoPlanName
             /\ proc'[p].result = NoPlanName
             /\ ~proc'[p].complete_raised.raised
             /\ \/ /\ proc'[p].pc = "call"
                   /\ proc'[p].attempt = proc[p].attempt + 1
                   /\ proc'[p].attempts_made = proc[p].attempts_made + 1
                   /\ proc'[p].llm_attempt = 0
                \/ /\ proc'[p].pc = "done"
                   /\ proc'[p].outcome = "generation_failed"
                   /\ proc[p].attempt = 2
    ]_vars

\* the completion of the first attempt returned a text that is not JSON,
\* and the orchestrator is at its second attempt with that error in hand
C20_Witness ==
  \E p \in Procs :
    /\ proc[p].trace = <<CallEvent(TRUE, "notJson", NoText, FALSE)>>
    /\ proc[p].gen_last_error = "LLM returned invalid JSON"
    /\ proc[p].pc = "call"
    /\ proc[p].attempts_made = 2
    /\ proc[p].plan = NoPlanName

(***************************************************************************)
(* PlanningEngine.reschedule_task: the UPDATE of the task, then            *)
(* generate_daily_plan for the day before the new due date.  The engine's  *)
(* caller is one coroutine; the provider's errors are drawn from a wider   *)
(* set of texts, and the acompletion calls and backoff sleeps of each      *)
(* generate_daily_plan invocation are counted.                             *)
(***************************************************************************)
MaxReschedules == 2

TaskId == "t1"

\* a timestamp column holding NULL
NoTimestamp == << >>

\* a row of tasks as INSERT INTO tasks leaves it: no due date, pending
NewTask(id, user_id, now) ==
  [id |-> id, user_id |-> user_id, due_date |-> NoText, status |-> "pending",
   completed_at |-> NoTimestamp, updated_at |-> now]

\* rows of calendar_events, each with the date of its start_time
CalendarEvent(id, user_id, day) == [id |-> id, user_id |-> user_id, day |-> day]

StoredEvents ==
  {CalendarEvent("e1", User, toordinal(2025, 3, 11)),
   CalendarEvent("e2", User, toordinal(2025, 3, 14))}

\* plan_date_str without the timedelta: the plan of the due date itself
plan_date_str_SameDay(new_date) == new_date

\* new_date_dt - timedelta(days=1), as '%Y-%m-%d'; strptime raises
\* ValueError on a text that is no date
plan_date_str(new_date) ==
  LET new_date_dt == strptime(new_date)
  IN IF new_date_dt.ok
     THEN strftime(toordinal(new_date_dt.year, new_date_dt.month,
                             new_date_dt.day) - 1)
     ELSE NoText

\* plan_date_str, tabulated
PlanDateOf == [d \in NewDueDates |-> plan_date_str(d)]

\* UpdateDueDate without `due_date = $1`
UpdateDueDate_KeepsDate(rows, user_id, task_id, new_date, now) ==
  {IF t.id = task_id /\ t.user_id = user_id
   THEN [t EXCEPT !.updated_at = now]
   ELSE t : t \in rows}

\* UPDATE tasks SET due_date = $1, updated_at = CURRENT_TIMESTAMP
\* WHERE id = $2 AND user_id = $3
UpdateDueDate(rows, user_id, task_id, new_date, now) ==
  {IF t.id = task_id /\ t.user_id = user_id
   THEN [t EXCEPT !.due_date = new_date, !.updated_at = now]
   ELSE t : t \in rows}

\* reschedule_task is called on an engine that was built, and its UPDATE
\* is executed
reschedule_task(task_id, new_date) ==
  /\ rproc.pc = "idle"
  /\ proc["request"].pc = "idle"
  /\ ~ClientKeyMissing(settings_key)
  /\ reschedules < MaxReschedules
  /\ reschedules' = reschedules + 1
  /\ tasks' = UpdateDueDate(tasks, User, task_id, new_date, clock)
  /\ clock' = clock + 1
  /\ rproc' = [RIdle EXCEPT !.pc = "regenerate", !.task_id = task_id,
                            !.new_date = new_date, !.before = daily_plans]
  /\ meter' = NoMeter
  /\ UNCHANGED <<env_key, settings_key, daily_plans, calls, proc>>
  /\ UNCHANGED <<today, users, override_vars, scheduler_vars>>
  /\ UNCHANGED <<calendar_events, task_updates>>

\* the UPDATE raises DatabaseError
RescheduleUpdateFails(task_id, new_date) ==
  /\ rproc.pc = "idle"
  /\ proc["request"].pc = "idle"
  /\ ~ClientKeyMissing(settings_key)
  /\ reschedules < MaxReschedules
  /\ reschedules' = reschedules + 1
  /\ rproc' = [RIdle EXCEPT !.pc = "done", !.task_id = task_id,
                            !.new_date = new_date, !.before = daily_plans,
                            !.outcome = "database_error"]
  /\ meter' = NoMeter
  /\ UNCHANGED <<env_key, settings_key, daily_plans, clock, calls, proc>>
  /\ UNCHANGED <<today, users, override_vars, scheduler_vars>>
  /\ UNCHANGED <<tasks, calendar_events, task_updates>>

\* plan_date_str is computed and generate_daily_plan is called with it
RescheduleRegenerate ==
  /\ rproc.pc = "regenerate"
  /\ LET plan_date == PlanDateOf[rproc.new_date]
     IN /\ Set("request", generate_daily_plan(Idle, plan_date))
        /\ rproc' = [rproc EXCEPT !.pc = "await", !.plan_date = plan_date,
                                  !.invocations = @ + 1]
  /\ calls' = calls + 1
  /\ UNCHANGED <<env_key, settings_key, daily_plans, clock>>
  /\ UNCHANGED <<today, users, override_vars, scheduler_vars>>
  /\ UNCHANGED <<tasks, calendar_events, reschedules, task_updates, meter>>

\* generate_daily_plan has returned or raised: so does reschedule_task
RescheduleReturns ==
  /\ rproc.pc = "await"
  /\ proc["request"].pc = "done"
  /\ rproc' = [rproc EXCEPT !.pc = "done", !.outcome = proc["request"].outcome]
  /\ UNCHANGED <<env_key, settings_key, daily_plans, clock, calls, proc>>
  /\ UNCHANGED <<today, users, override_vars, scheduler_vars>>
  /\ UNCHANGED <<tasks, calendar_events, reschedules, task_updates, meter>>

\* the caller has the outcome; the engine is free for its next call
RescheduleFinish ==
  /\ rproc.pc = "done"
  /\ rproc' = RIdle
  /\ Set("request", Idle)
  /\ UNCHANGED <<env_key, settings_key, daily_plans, clock, calls>>
  /\ UNCHANGED <<today, users, override_vars, scheduler_vars>>
  /\ UNCHANGED <<tasks, calendar_events, reschedules, task_updates, meter>>

\* the invocation in flight has made this many more acompletion calls and
\* asyncio.sleep calls
Metered(provider_calls, sleeps) ==
  meter' = [provider_calls |-> meter.provider_calls + provider_calls,
            sleeps |-> meter.sleeps + sleeps]

\* the row of a plan generated earlier, for 2025-03-09
StoredPlan ==
  NewRow(User, [ok |-> TRUE, year |-> 2025, month |-> 3, day |-> 9],
         "planA", 0)

\* the completions the provider returns to reschedule_task's engine: two
\* valid plans, a JSON object that is no valid plan, a text that is no JSON
RescheduleResponses == {"planA", "planB", "badDate", "notJson"}

InitReschedule ==
  /\ env_key = TRUE
  /\ settings_key = TRUE
  /\ daily_plans = {StoredPlan}
  /\ clock = 1
  /\ calls = 0
  /\ proc = [p \in Procs |-> Idle]
  /\ today = PlanningDay
  /\ users = {User}
  /\ env_max_overrides = NoText
  /\ override_log = {}
  /\ override_calls = 0
  /\ oproc = [o \in OProcs |-> OIdle]
  /\ scheduler = NoScheduler
  /\ job = JobIdle
  /\ tasks = {NewTask(TaskId, User, 0)}
  /\ calendar_events = StoredEvents
  /\ reschedules = 0
  /\ task_updates = << >>
  /\ rproc = RIdle
  /\ meter = NoMeter

NextReschedule ==
  \/ \E d \in NewDueDates : reschedule_task(TaskId, d)
  \/ \E d \in NewDueDates : RescheduleUpdateFails(TaskId, d)
  \/ RescheduleRegenerate
  \/ GatherContext("request")
  \/ GatherContextFails("request")
  \/ \E r \in RescheduleResponses :
       ProviderReturns("request", r) /\ Metered(1, 0)
  \/ \E e \in ClientErrorTexts : ProviderFails("request", e) /\ Metered(1, 0)
  \/ Sleep("request") /\ Metered(0, 1)
  \/ save_plan("request")
  \/ SavePlanFails("request")
  \/ RescheduleReturns
  \/ RescheduleFinish

SpecReschedule == InitReschedule /\ [][NextReschedule]_vars

\* a step of the generate_daily_plan invocation in flight
GenerateStep ==
  \/ GatherContext("request")
  \/ GatherContextFails("request")
  \/ \E r \in RescheduleResponses :
       ProviderReturns("request", r) /\ Metered(1, 0)
  \/ \E e \in ClientErrorTexts : ProviderFails("request", e) /\ Metered(1, 0)
  \/ Sleep("request") /\ Metered(0, 1)
  \/ save_plan("request")
  \/ SavePlanFails("request")

\* the event loop runs the coroutine whenever what it awaits is over, and
\* each query, acompletion call and asyncio.sleep it awaits returns or
\* raises
FairSpecReschedule == SpecReschedule /\ WF_vars(GenerateStep)

(***************************************************************************)
(* PUT /tasks/{task_id}: update_task, one UPDATE of the tasks table.       *)
(***************************************************************************)
MaxTaskUpdates == 3

\* an Optional field of TaskUpdate that the request leaves out
None == "None"

\* the values of TaskUpdate.status in the requests
StatusArgs == {None, "in_progress", "completed", "cancelled"}

\* a task_id that names no row
MissingTaskId == "t9"

\* COALESCE($n, column)
COALESCE(arg, column, null) == IF arg = null THEN column ELSE arg

\* due_date as the route passes it: the date of a '%Y-%m-%d' text, None
\* for a text that is no date
ParsedDueDate(due_date) ==
  IF due_date = NoText THEN NoText
  ELSE IF DateOf[due_date].ok THEN due_date ELSE NoText

\* UpdateTask with completed_at written only while it is NULL
UpdateTask_SetsOnce(rows, user_id, task_id, status, due_date, now) ==
  {IF t.id = task_id /\ t.user_id = user_id
   THEN [t EXCEPT
           !.status = COALESCE(status, t.status, None),
           !.due_date = COALESCE(due_date, t.due_date, NoText),
           !.completed_at = IF status = "completed"
                               /\ t.completed_at = NoTimestamp
                            THEN <<now>> ELSE t.completed_at,
           !.updated_at = now]
   ELSE t : t \in rows}

\* UPDATE tasks SET status = COALESCE($5, status), due_date =
\* COALESCE($8, due_date), completed_at = CASE WHEN $5 = 'completed' THEN
\* CURRENT_TIMESTAMP ELSE completed_at END, updated_at = CURRENT_TIMESTAMP
\* WHERE id = $9 AND user_id = $10
UpdateTask(rows, user_id, task_id, status, due_date, now) ==
  {IF t.id = task_id /\ t.user_id = user_id
   THEN [t EXCEPT
           !.status = COALESCE(status, t.status, None),
           !.due_date = COALESCE(due_date, t.due_date, NoText),
           !.completed_at = IF status = "completed"
                            THEN <<now>> ELSE t.completed_at,
           !.updated_at = now]
   ELSE t : t \in rows}

\* a handled request and its response
TaskRequest(task_id, status, due_date, response) ==
  [task_id |-> task_id, status |-> status, due_date |-> due_date,
   response |-> response]

\* the handler: the UPDATE, then 404 when RETURNING * gave no row
update_task(task_id, status, due_date) ==
  /\ Len(task_updates) < MaxTaskUpdates
  /\ tasks' = UpdateTask(tasks, User, task_id, status,
                         ParsedDueDate(due_date), clock)
  /\ clock' = clock + 1
  /\ task_updates' =
       Append(task_updates,
              TaskRequest(task_id, status, due_date,
                          IF \E t \in tasks : t.id = task_id /\ t.user_id = User
                          THEN "task" ELSE "not_found"))
  /\ UNCHANGED <<env_key, settings_key, daily_plans, calls, proc>>
  /\ UNCHANGED <<today, users, override_vars, scheduler_vars>>
  /\ UNCHANGED <<calendar_events, reschedules, rproc, meter>>

\* the query raises: the handler answers 500
UpdateTaskFails(task_id, status, due_date) ==
  /\ Len(task_updates) < MaxTaskUpdates
  /\ task_updates' =
       Append(task_updates,
              TaskRequest(task_id, status, due_date, "internal_error"))
  /\ UNCHANGED <<env_key, settings_key, daily_plans, clock, calls, proc>>
  /\ UNCHANGED <<today, users, override_vars, scheduler_vars>>
  /\ UNCHANGED <<tasks, calendar_events, reschedules, rproc, meter>>

InitTasks ==
  /\ env_key = TRUE
  /\ settings_key = TRUE
  /\ daily_plans = {}
  /\ clock = 1
  /\ calls = 0
  /\ proc = [p \in Procs |-> Idle]
  /\ today = PlanningDay
  /\ users = {User}
  /\ env_max_overrides = NoText
  /\ override_log = {}
  /\ override_calls = 0
  /\ oproc = [o \in OProcs |-> OIdle]
  /\ scheduler = NoScheduler
  /\ job = JobIdle
  /\ tasks = {NewTask(TaskId, User, 0)}
  /\ calendar_events = {}
  /\ reschedules = 0
  /\ task_updates = << >>
  /\ rproc = RIdle
  /\ meter = NoMeter

NextTasks ==
  \/ \E id \in {TaskId, MissingTaskId} : \E st \in StatusArgs :
       \E d \in {NoText, TargetDate2} : update_task(id, st, d)
  \/ \E id \in {TaskId, MissingTaskId} : \E st \in StatusArgs :
       \E d \in {NoText, TargetDate2} : UpdateTaskFails(id, st, d)

SpecTasks == InitTasks /\ [][NextTasks]_vars

(***************************************************************************)
(* Claims about the retry policies, the stored plan, the context and       *)
(* reschedule_task.                                                        *)
(***************************************************************************)
\* this step is one in which complete raises its error
CompleteRaisesIn(p) ==
  /\ proc[p].pc \in {"call", "sleep"}
  /\ proc'[p] # proc[p]
  /\ proc'[p].complete_raised.raised

(***************************************************************************)
(* C21.  When the Completion Client fails (a non-retryable provider error, *)
(* or a transient one after the client's own 3 attempts), the orchestrator *)
(* starts no further generation attempt: the failure ends the operation.   *)
(* A further attempt is started only after a failure of parsing or of      *)
(* schema validation.                                                      *)
(***************************************************************************)
C21_ClientFailureIsEscalated ==
  [][\A p \in Procs :
       /\ CompleteRaisesIn(p) =>
            /\ proc'[p].pc = "done"
            /\ proc'[p].attempts_made = proc[p].attempts_made
       /\ proc'[p].attempts_made > proc[p].attempts_made /\ proc[p].pc = "call"
            => /\ proc'[p].trace # << >>
               /\ proc'[p].trace[Len(proc'[p].trace)].ok]_vars

\* the retryable-error vocabulary as the specification words it
\* (section 4.1), in lower case
SpecVocabulary ==
  {<<"r", "a", "t", "e", " ", "l", "i", "m", "i", "t">>,
   <<"t", "i", "m", "e", "o", "u", "t">>,
   <<"c", "o", "n", "n", "e", "c", "t", "i", "o", "n">>,
   <<"n", "e", "t", "w", "o", "r", "k">>,
   <<"t", "e", "m", "p", "o", "r", "a", "r", "i", "l", "y", " ", "u", "n", "a",
     "v", "a", "i", "l", "a", "b", "l", "e">>,
   <<"4", "2", "9">>, <<"5", "0", "2">>, <<"5", "0", "3">>, <<"5", "0", "4">>}

\* the same vocabulary with 'temporary' and 'service unavailable' in the
\* place of 'temporarily unavailable'
AmendedVocabulary ==
  (SpecVocabulary \ {lower(ErrTemporarilyUnavailable)})
    \cup {<<"t", "e", "m", "p", "o", "r", "a", "r", "y">>,
          <<"s", "e", "r", "v", "i", "c", "e", " ", "u", "n", "a", "v", "a",
            "i", "l", "a", "b", "l", "e">>}

\* the error texts that hold, case ignored, a word of the vocabulary
InSpecVocabulary ==
  [e \in ClientErrorTexts |-> \E w \in SpecVocabulary : Contains(lower(e), w)]

InAmendedVocabulary ==
  [e \in ClientErrorTexts |->
     \E w \in AmendedVocabulary : Contains(lower(e), w)]

CallsUpTo(t, i) == Cardinality({j \in 1..i : t[j].ev = "call"})

\* each failed attempt of the latest complete invocation is classified by
\* the vocabulary and is followed by another attempt exactly when it is
\* retryable and fewer than 3 attempts were made
ClassifiedBy(vocabulary) ==
  LET t == proc["request"].trace
  IN \A i \in DOMAIN t :
       (t[i].ev = "call" /\ ~t[i].ok) =>
         /\ t[i].retryable = vocabulary[t[i].error]
         /\ (vocabulary[t[i].error] /\ CallsUpTo(t, i) < 3) =>
              \/ i < Len(t) /\ t[i + 1].ev = "sleep"
              \/ i = Len(t) /\ proc["request"].pc = "sleep"
         /\ ~(vocabulary[t[i].error] /\ CallsUpTo(t, i) < 3) =>
              /\ i = Len(t)
              /\ proc["request"].pc # "sleep"
              /\ proc["request"].complete_raised.raised

(***************************************************************************)
(* C22, as the specification states it.  A failed attempt is retryable     *)
(* exactly when its error text holds, case ignored, one of: rate limit,    *)
(* timeout, connection, network, temporarily unavailable, 429, 502, 503,   *)
(* 504; a retryable failure is followed by another attempt when fewer than *)
(* 3 attempts were made, and no other failure is.                          *)
(***************************************************************************)
C22_RetryableIffInSpecVocabulary == ClassifiedBy(InSpecVocabulary)

(***************************************************************************)
(* C22, amended.  A failed attempt is retryable exactly when its error     *)
(* text holds, case ignored, one of: rate limit, timeout, connection,      *)
(* network, temporary, service unavailable, 429, 502, 503, 504; a          *)
(* retryable failure is followed by another attempt when fewer than 3      *)
(* attempts were made, and no other failure is.                            *)
(***************************************************************************)
C22_RetryableIffInCodeVocabulary == ClassifiedBy(InAmendedVocabulary)

\* an HTTP 502 and a 'Service Unavailable' were each retried after a sleep,
\* and the 'Temporarily unavailable' that followed them ended the invocation
C22_Witness ==
  /\ proc["request"].trace =
       <<CallEvent(FALSE, "", ErrBadGateway, TRUE),
         SleepEvent(1),
         CallEvent(FALSE, "", ErrServiceUnavailable, TRUE),
         SleepEvent(2),
         CallEvent(FALSE, "", ErrTemporarilyUnavailable, FALSE)>>
  /\ proc["request"].complete_raised.raised

\* the rows of daily_plans for the date of the invocation in flight
RowsForTarget(rows) ==
  {r \in rows : /\ r.user_id = User
                /\ r.plan_date = DateOf[proc["request"].target_date]}

(***************************************************************************)
(* C23.  A step of generate_daily_plan that changes daily_plans is its     *)
(* save.  When a row exists for (user, date), that row alone changes, in   *)
(* its payload, reasoning and modification timestamp: it keeps its id, its *)
(* key, its generation timestamp and its is_override, and every other row  *)
(* is as before.  When none exists, exactly one row is added, with         *)
(* is_override false, and every other row is as before.                    *)
(***************************************************************************)
C23_SaveChangesOnlyPayload ==
  [][daily_plans' # daily_plans =>
       LET c == proc["request"]
           old == RowsForTarget(daily_plans)
           new == RowsForTarget(daily_plans')
       IN /\ c.pc = "save"
          /\ daily_plans' \ new = daily_plans \ old
          /\ Cardinality(new) = 1
          /\ \A n \in new :
               /\ n.plan_json = c.plan
               /\ n.reasoning = ReasoningOf[c.plan]
               /\ n.modified_at = clock
               /\ old = {} => n.is_override = FALSE
               /\ \A o \in old :
                    /\ n.id = o.id
                    /\ n.generated_at = o.generated_at
                    /\ n.is_override = o.is_override]_vars

\* the plan of 2025-03-10 was generated a second time: its row has the
\* later payload and modification time and the earlier generation time,
\* and the row of 2025-03-09 is still there
C23_Witness ==
  /\ StoredPlan \in daily_plans
  /\ \E r \in daily_plans :
       /\ r.plan_date = DateOf[TargetDate1]
       /\ r.modified_at > r.generated_at
       /\ r.plan_json = "planA"
       /\ r.reasoning = ReasoningOf["planA"]
  /\ Cardinality(daily_plans) = 2

\* the day each target date names
TargetDay == [d \in TargetDates \cup NewDueDates |-> DayNamedBy(d)]

(***************************************************************************)
(* C24.  The calendar events in the context gathered for target_date are   *)
(* exactly the user's events of the day after target_date: every event of  *)
(* that day is there and no event of another day is.                       *)
(***************************************************************************)
C24_ContextHoldsNextDaysEvents ==
  LET c == proc["request"]
  IN c.context # NoContext =>
       c.context.calendarEvents =
         {e \in calendar_events :
            e.user_id = User /\ e.day = TargetDay[c.target_date] + 1}

\* the day each new due date names
NewDueDay == [d \in NewDueDates |-> DayNamedBy(d)]

\* the task reschedule_task was called for has the due date it was given
TaskHasNewDate(rows) ==
  /\ \E t \in rows : t.id = rproc.task_id /\ t.user_id = User
  /\ \A t \in rows :
       (t.id = rproc.task_id /\ t.user_id = User) =>
         t.due_date = rproc.new_date

(***************************************************************************)
(* C25.  reschedule_task changes the task first: the step that writes     *)
(* tasks is its first, sets the due date to new_due_date and comes before  *)
(* any generate_daily_plan call.  It then calls generate_daily_plan once,  *)
(* for the day before new_due_date, the task already holding the new due   *)
(* date; it makes no second call, and it returns only after that one call. *)
(***************************************************************************)
C25_UpdateThenRegenerateOnce ==
  [][/\ tasks' # tasks =>
          /\ rproc.pc = "idle" /\ rproc'.pc = "regenerate"
          /\ rproc'.invocations = 0
          /\ calls' = calls
          /\ \A t \in tasks' :
               (t.id = rproc'.task_id /\ t.user_id = User) =>
                 t.due_date = rproc'.new_date
     /\ calls' # calls =>
          /\ calls' = calls + 1
          /\ rproc.pc = "regenerate" /\ rproc.invocations = 0
          /\ rproc'.invocations = 1
          /\ TaskHasNewDate(tasks) /\ tasks' = tasks
          /\ proc'["request"].pc # "idle"
          /\ TargetDay[proc'["request"].target_date]
               = NewDueDay[rproc.new_date] - 1
     /\ (rproc.pc = "await" /\ rproc'.pc = "done") =>
          /\ rproc'.invocations = 1
          /\ proc["request"].pc = "done"]_vars

\* reschedule_task(user, t1, '2025-03-12') has returned: the task is due
\* on 2025-03-12 and the plan of 2025-03-11 was generated and stored
C25_Witness ==
  /\ rproc.pc = "done" /\ rproc.outcome = "returned"
  /\ rproc.new_date = NewDueDate2
  /\ rproc.invocations = 1
  /\ TaskHasNewDate(tasks)
  /\ proc["request"].target_date = TargetDate2
  /\ \E r \in daily_plans : r.plan_date = DateOf[TargetDate2]

(***************************************************************************)
(* C30.  reschedule_task is not atomic.  When the regeneration it runs     *)
(* fails, reschedule_task fails with the error of generate_daily_plan; the *)
(* task keeps the new due date and daily_plans is as it was when           *)
(* reschedule_task was called.                                             *)
(***************************************************************************)
C30_FailedRegenerationKeepsNewDate ==
  (rproc.pc = "done" /\ rproc.invocations = 1 /\ rproc.outcome # "returned")
    => /\ rproc.outcome = proc["request"].outcome
       /\ rproc.outcome \in {"generation_failed", "database_error"}
       /\ TaskHasNewDate(tasks)
       /\ daily_plans = rproc.before

\* three attempts gave no valid plan: reschedule_task(user, t1,
\* '2025-03-12') has failed, the task is due on 2025-03-12, and the table
\* holds the earlier plan only
C30_Witness ==
  /\ rproc.pc = "done" /\ rproc.outcome = "generation_failed"
  /\ rproc.new_date = NewDueDate2
  /\ proc["request"].attempts_made = 3
  /\ \E t \in tasks : t.id = TaskId /\ t.due_date = NewDueDate2
  /\ daily_plans = {StoredPlan}

(***************************************************************************)
(* C29.  Every generate_daily_plan invocation ends.  It makes at most 9    *)
(* provider calls (3 orchestrator attempts of at most 3 client attempts)   *)
(* and at most 6 backoff sleeps, and when it has ended it has either       *)
(* returned after writing once or failed without writing.                  *)
(***************************************************************************)
C29_GenerationTerminates ==
  /\ [](LET c == proc["request"]
        IN /\ meter.provider_calls <= 9
           /\ meter.sleeps <= 6
           /\ c.attempts_made <= 3
           /\ c.writes <= 1
           /\ c.pc = "done" =>
                (c.outcome = "returned" <=> c.writes = 1))
  /\ (proc["request"].pc \in {"gather", "call", "sleep", "save"})
       ~> (proc["request"].pc = "done")

\* an invocation that failed after 9 provider calls and 6 sleeps
C29_Witness ==
  /\ proc["request"].pc = "done"
  /\ proc["request"].outcome = "generation_failed"
  /\ meter.provider_calls = 9
  /\ meter.sleeps = 6

\* the row of tasks' that has the id of row o of tasks
SameTask(o, n) == n.id = o.id /\ n.user_id = o.user_id

(***************************************************************************)
(* C26, as the specification states it.  A task's completion timestamp is  *)
(* set once, by the update that moves its status to completed, and no      *)
(* later update changes it, one that passes status = completed again       *)
(* included.                                                               *)
(***************************************************************************)
C26_CompletedAtSetOnce ==
  [][\A o \in tasks : \A n \in tasks' :
       SameTask(o, n) =>
         /\ o.completed_at # NoTimestamp => n.completed_at = o.completed_at
         /\ n.completed_at # o.completed_at =>
              o.status # "completed" /\ n.status = "completed"]_vars

(***************************************************************************)
(* C26, amended.  Every update of a task whose request passes status =     *)
(* completed sets the completion timestamp to the time of that update,     *)
(* also when the task is completed already; every other update leaves the  *)
(* completion timestamp as it is, also when it moves the task out of       *)
(* completed.                                                              *)
(***************************************************************************)
C26_CompletedAtFollowsRequest ==
  [][task_updates' # task_updates =>
       LET q == task_updates'[Len(task_updates')]
       IN \A o \in tasks : \A n \in tasks' :
            SameTask(o, n) =>
              IF q.response = "task" /\ q.task_id = o.id
              THEN /\ n.completed_at = IF q.status = "completed"
                                       THEN <<clock>> ELSE o.completed_at
                   /\ n.status = IF q.status = None THEN o.status ELSE q.status
              ELSE n = o]_vars

\* the task was completed by the first request and completed again by the
\* third: its completion timestamp is the time of the third
C26_Witness ==
  /\ Len(task_updates) = 3
  /\ \A i \in {1, 3} :
       /\ task_updates[i].status = "completed"
       /\ task_updates[i].task_id = TaskId
       /\ task_updates[i].response = "task"
  /\ task_updates[2] = TaskRequest(TaskId, "in_progress", NoText, "task")
  /\ \E t \in tasks :
       t.id = TaskId /\ t.status = "completed" /\ t.completed_at = <<3>>

\* the user's rows of override_log with week number w
RowsOfWeek(w) ==
  {e \in override_log : e.user_id = User /\ e.week_number = w}

(***************************************************************************)
(* C27.  Whatever the interleaving of the override requests of one user,   *)
(* the rows of override_log of that user in one week bucket never number   *)
(* more than the weekly limit.                                             *)
(***************************************************************************)
C27_BucketNeverExceedsLimit ==
  \A w \in 1..53 : Cardinality(RowsOfWeek(w)) <= ConfiguredCap

\* the year of the week of day o: the year of its Thursday
YearOfWeek(o) == YearOf(ThursdayOf(o))

(***************************************************************************)
(* C28.  The count check_weekly_overrides returns holds no override that   *)
(* was logged in a week of an earlier year, also when that week has the    *)
(* week number of the current week.                                        *)
(***************************************************************************)
C28_EarlierYearNotCounted ==
  [][\A o \in OProcs :
       (oproc[o].pc = "check" /\ oproc'[o].pc # "check") =>
         oproc'[o].override_check.count =
           Cardinality({e \in RowsOfWeek(WeekNumberOf[today]) :
                          YearOfWeek(e.override_timestamp)
                            >= YearOfWeek(today)})]_vars

====
